---- MODULE Spec2Model ----
(***************************************************************************)
(* Model of the gym-registration gRPC server (src/client/grpc_client.js,   *)
(* server part from line 282 on): the token authenticator, the in-memory   *)
(* revocation set, the Prisma-backed storage and the 23 RPC handlers.      *)
(*                                                                         *)
(* Every handler is an operator  H(request, fault)  that reads the state   *)
(* variables and returns the callback argument (resp) with the storage and *)
(* revocation set it leaves behind; the action of the same name applies    *)
(* it.  `fault` is what the storage engine does to the handler's n-th      *)
(* storage operation: nothing, a Prisma known-request error (an object     *)
(* with a string `code`), or an error without a `code`.                    *)
(*                                                                         *)
(* Encodings: ids are strings in the source (server generated); here they  *)
(* are 1, 2, ... with 0 for the empty string.  The clock `now` counts      *)
(* hours; a Date is epoch milliseconds.  A proto3 `optional` field is      *)
(* Absent or Some(v); every other string field is "" when not supplied     *)
(* (proto-loader is run with defaults: true).                              *)
(***************************************************************************)
EXTENDS Integers, Sequences, FiniteSets, TLC

VARIABLES prisma,         \* the four tables and the id generators
          revokedTokens,  \* const revokedTokens = new Set()
          now,            \* wall clock, in hours
          issued,         \* tokens handed to clients by CreateSession
          call,           \* the RPC last served: [rpc, request, fault]
          resp,           \* what its callback received: [code, body]
          workload,       \* the entity service the clients of this run use
          inflight,       \* handlers suspended at an await, by connection
          budget,         \* the growth this run is followed up to
          written,        \* routine id -> the availability last sent for it
          conversion      \* a date on its way through the timestamp mapper

vars == <<prisma, revokedTokens, now, issued, call, resp, workload, inflight, budget,
          written, conversion>>

(* ------------------------------ bounds -------------------------------- *)
(* rows ever created + distinct tokens ever issued + hours on the clock *)
MaxGrowth == 4
(* handlers that can be suspended at an await at the same time *)
MaxInFlight == 2
(* connections of the server whose awaited operations all complete *)
MaxFairInFlight == 1
(* growth followed from a server that already has two trainees logged in *)
MaxSeededGrowth == 1
(* trainees in the table that ListTrainees pages through *)
MaxListed == 22
(* the highest page and the largest page size a listing asks for *)
MaxPage == 3
MaxPageSize == 6

(* ------------------------- program constants -------------------------- *)
ExpiresIn == 2                 \* jwt.sign(..., { expiresIn: '2h' })
DefaultPageSize == 20          \* pagination?.page_size || 20
MsPerHour == 3600 * 1000

(* --------------------------- input domains ---------------------------- *)
Emails == {"a@x.com", "b@x.com"}
Passwords == {"pw"}
Names == {"A"}
Timezones == {"UTC"}

Absent == [has |-> FALSE]
Some(v) == [has |-> TRUE, val |-> v]
Opt(S) == {Absent} \cup {Some(v) : v \in S}

Null == [null |-> TRUE]

(* gRPC status names, grpc.status.* *)
OK == "OK"
UNAUTHENTICATED == "UNAUTHENTICATED"
INVALID_ARGUMENT == "INVALID_ARGUMENT"
ALREADY_EXISTS == "ALREADY_EXISTS"
NOT_FOUND == "NOT_FOUND"
INTERNAL == "INTERNAL"

(* ------------------------------ tokens -------------------------------- *)
(* A token string.  jwt.sign puts the payload, iat and exp under a         *)
(* signature, so two sign calls with the same payload in the same clock    *)
(* unit give the same string.                                              *)
NoToken == [kind |-> "empty"]
MalformedToken == [kind |-> "malformed"]

jwtSign(payload, t) ==
    [kind |-> "jwt", traineeId |-> payload.traineeId, email |-> payload.email,
     iat |-> t, exp |-> t + ExpiresIn, sig |-> "JWT_SECRET"]

ForgedToken ==
    [kind |-> "jwt", traineeId |-> 1, email |-> "a@x.com",
     iat |-> 0, exp |-> MaxGrowth + ExpiresIn, sig |-> "other"]

(* variant: a token is still accepted at the instant it expires *)
jwtVerifyOkAtExpiry(token) ==
    /\ token.kind = "jwt"
    /\ token.sig = "JWT_SECRET"
    /\ now <= token.exp

jwtVerifyOk(token) ==
    /\ token.kind = "jwt"
    /\ token.sig = "JWT_SECRET"
    /\ now < token.exp

jwtVerify(token) ==
    IF jwtVerifyOk(token)
    THEN [ok |-> TRUE,
          value |-> [traineeId |-> token.traineeId, email |-> token.email,
                     iat |-> token.iat, exp |-> token.exp]]
    ELSE [ok |-> FALSE]

Err(code, message) == [code |-> code, message |-> message]

(* variant: the revocation set is not consulted *)
authenticateTokenIgnoringRevocation(token) ==
    IF token = NoToken
    THEN [ok |-> FALSE, error |-> Err(UNAUTHENTICATED, "Authorization token missing")]
    ELSE IF jwtVerify(token).ok
    THEN [ok |-> TRUE, value |-> jwtVerify(token).value]
    ELSE [ok |-> FALSE, error |-> Err(UNAUTHENTICATED, "Invalid token")]

authenticateToken(token) ==
    IF token = NoToken
    THEN [ok |-> FALSE, error |-> Err(UNAUTHENTICATED, "Authorization token missing")]
    ELSE IF token \in revokedTokens
    THEN [ok |-> FALSE, error |-> Err(UNAUTHENTICATED, "Token is revoked")]
    ELSE IF jwtVerify(token).ok
    THEN [ok |-> TRUE, value |-> jwtVerify(token).value]
    ELSE [ok |-> FALSE, error |-> Err(UNAUTHENTICATED, "Invalid token")]

(* --------------------------- entity mapper ---------------------------- *)
Date(ms) == [ms |-> ms]

(* JavaScript %, the sign follows the dividend *)
JsRem(a, b) == IF a >= 0 THEN a % b ELSE 0 - ((0 - a) % b)

convertTimestamp(date) ==
    IF date = Null THEN Null
    ELSE [seconds |-> date.ms \div 1000,          \* Math.floor
          nanos |-> JsRem(date.ms, 1000) * 1000000]

(* new Date(x) truncates a fractional x toward zero *)
convertFromTimestamp(timestamp) ==
    IF timestamp = Null THEN Null
    ELSE LET whole == timestamp.seconds * 1000 + (timestamp.nanos \div 1000000)
             frac == timestamp.nanos % 1000000
         IN  Date(IF frac # 0 /\ whole < 0 THEN whole + 1 ELSE whole)

(* variant: the password is not stripped *)
formatTraineeKeepingPassword(trainee) ==
    IF trainee = Null THEN Null
    ELSE [k \in (DOMAIN trainee) \cup {"created_at", "updated_at"} |->
            IF k = "created_at" THEN trainee.createdAt
            ELSE IF k = "updated_at" THEN trainee.updatedAt
            ELSE trainee[k]]

formatTrainee(trainee) ==
    IF trainee = Null THEN Null
    ELSE [k \in ((DOMAIN trainee) \ {"password"}) \cup {"created_at", "updated_at"} |->
            IF k = "created_at" THEN trainee.createdAt
            ELSE IF k = "updated_at" THEN trainee.updatedAt
            ELSE trainee[k]]

(* an array of TimeSlot <-> the JSON text kept in routine.availability *)
RECURSIVE JSONstringify(_)
JSONstringify(availability) ==
    IF availability = <<>> THEN <<>>
    ELSE <<Head(availability).day, Head(availability).start_time,
           Head(availability).end_time>> \o JSONstringify(Tail(availability))

RECURSIVE JSONparse(_)
JSONparse(text) ==
    IF Len(text) < 3 THEN <<>>
    ELSE <<[day |-> text[1], start_time |-> text[2], end_time |-> text[3]]>>
         \o JSONparse(SubSeq(text, 4, Len(text)))

(* ------------------------------ storage ------------------------------- *)
(* prisma.<table> is the sequence of the table's rows in insertion order.  *)
NoFault == [op |-> 0, kind |-> "none"]
Faults(nOps) == {NoFault} \cup [op : 1..nOps, kind : {"known", "unknown"}]
FaultAt(fault, n) == fault.op = n

(* PrismaClientKnownRequestError carries a string code, the others none *)
PrismaKnown(code) == [code |-> code, message |-> "prisma request error"]
PrismaError(fault) ==
    IF fault.kind = "known" THEN PrismaKnown("P2024")
    ELSE [message |-> "prisma error"]

Min(S) == CHOOSE x \in S : \A y \in S : x <= y

(* where: { key: value } *)
Where(rows, key, value) == {i \in 1..Len(rows) : rows[i][key] = value}

FindFirst(rows, key, value) ==
    IF Where(rows, key, value) = {} THEN Null ELSE rows[Min(Where(rows, key, value))]

Matching(rows, key, value) == SelectSeq(rows, LAMBDA r : r[key] = value)
Without(rows, key, value) == SelectSeq(rows, LAMBDA r : r[key] # value)

Count(rows, key, value) == Cardinality(Where(rows, key, value))

Select(row, keys) == [k \in keys |-> row[k]]

PublicTrainee == {"id", "name", "email", "timezone", "createdAt", "updatedAt"}
JoinedTrainee == {"id", "name", "email", "createdAt", "updatedAt"}

Today == Date(now * MsPerHour)

(* prisma.trainee.findUnique({ where: { email } }): email is a unique key *)
traineeByEmail(email) == FindFirst(prisma.trainee, "email", email)
traineeById(id) == FindFirst(prisma.trainee, "id", id)

(* the unique index on trainee.email: another row holds the email *)
uniqueEmailTaken(email, id) ==
    \E i \in 1..Len(prisma.trainee) :
        prisma.trainee[i].email = email /\ prisma.trainee[i].id # id

(* prisma.trainee.create: P2002 when the unique email is taken *)
traineeCreate(data) ==
    IF uniqueEmailTaken(data.email, 0)
    THEN [ok |-> FALSE, error |-> PrismaKnown("P2002")]
    ELSE LET row == [id |-> prisma.ids + 1, name |-> data.name, email |-> data.email,
                     password |-> data.password, timezone |-> data.timezone,
                     createdAt |-> Today, updatedAt |-> Today]
         IN  [ok |-> TRUE, row |-> row,
              prisma |-> [prisma EXCEPT !.trainee = Append(@, row), !.ids = @ + 1]]

(* prisma.<table>.update: P2025 when no row has the id; data overrides *)
Patch(row, data) ==
    [k \in DOMAIN row |->
        IF k \in DOMAIN data THEN data[k]
        ELSE IF k = "updatedAt" THEN Today ELSE row[k]]

(* variant: the update does not check the unique email *)
traineeUpdateAnyEmail(id, data) ==
    IF traineeById(id) = Null
    THEN [ok |-> FALSE, error |-> PrismaKnown("P2025")]
    ELSE LET row == Patch(traineeById(id), data)
         IN  [ok |-> TRUE, row |-> row,
              prisma |-> [prisma EXCEPT !.trainee =
                            [i \in 1..Len(@) |-> IF @[i].id = id THEN row ELSE @[i]]]]

traineeUpdate(id, data) ==
    IF traineeById(id) = Null
    THEN [ok |-> FALSE, error |-> PrismaKnown("P2025")]
    ELSE IF "email" \in DOMAIN data /\ uniqueEmailTaken(data.email, id)
    THEN [ok |-> FALSE, error |-> PrismaKnown("P2002")]
    ELSE LET row == Patch(traineeById(id), data)
         IN  [ok |-> TRUE, row |-> row,
              prisma |-> [prisma EXCEPT !.trainee =
                            [i \in 1..Len(@) |-> IF @[i].id = id THEN row ELSE @[i]]]]

(* what deleting a trainee does to the rows that reference it: nothing *)
onDeleteTrainee(p, id) == p

(* variant: the delete takes the routines and registrations of the      *)
(* trainee with it                                                      *)
traineeDeleteCascading(id) ==
    IF traineeById(id) = Null
    THEN [ok |-> FALSE, error |-> PrismaKnown("P2025")]
    ELSE [ok |-> TRUE,
          prisma |-> [prisma EXCEPT !.trainee = Without(@, "id", id),
                                    !.routine = Without(@, "userId", id),
                                    !.registration = Without(@, "userId", id)]]

traineeDelete(id) ==
    IF traineeById(id) = Null
    THEN [ok |-> FALSE, error |-> PrismaKnown("P2025")]
    ELSE [ok |-> TRUE,
          prisma |-> onDeleteTrainee(
                       [prisma EXCEPT !.trainee = Without(@, "id", id)], id)]

(* ----------------------- callbacks and catch clauses ------------------ *)
(* callback(error): the status object as the handler hands it over *)
Callback(error) ==
    [code |-> IF "code" \in DOMAIN error THEN error.code ELSE "undefined",
     body |-> [message |-> error.message]]

InternalError == Err(INTERNAL, "Internal server error")

(* callback(error.code ? error : {INTERNAL}) *)
CodedOrInternal(error) == IF "code" \in DOMAIN error THEN error ELSE InternalError

(* variant: P2025 is not told apart from the other errors *)
AlwaysInternal(error, message) == InternalError

(* if (error.code === 'P2025') NOT_FOUND; else INTERNAL *)
P2025OrInternal(error, message) ==
    IF "code" \in DOMAIN error /\ error.code = "P2025"
    THEN Err(NOT_FOUND, message) ELSE InternalError

(* if (error.code === 'P2025') NOT_FOUND; else error.code ? error : INTERNAL *)
P2025OrCoded(error, message) ==
    IF "code" \in DOMAIN error /\ error.code = "P2025"
    THEN Err(NOT_FOUND, message) ELSE CodedOrInternal(error)

(* a handler's outcome *)
Fail(error, hit) ==
    [resp |-> Callback(error), prisma |-> prisma,
     revokedTokens |-> revokedTokens, hit |-> hit]
Succeed(body, p, revoked) ==
    [resp |-> [code |-> OK, body |-> body], prisma |-> p,
     revokedTokens |-> revoked, hit |-> FALSE]

(* variant: an unknown email is told apart from a wrong password *)
CreateSessionNamingUnknownEmail(request, fault) ==
    IF request.email = "" \/ request.password = ""
    THEN Fail(Err(INVALID_ARGUMENT, "Email and password are required"), FALSE)
    ELSE IF FaultAt(fault, 1) THEN Fail(InternalError, TRUE)
    ELSE LET trainee == traineeByEmail(request.email) IN
         IF trainee = Null THEN Fail(Err(NOT_FOUND, "Trainee not found"), FALSE)
         ELSE IF trainee.password # request.password
         THEN Fail(Err(UNAUTHENTICATED, "Invalid credentials"), FALSE)
         ELSE Succeed([token |-> jwtSign([traineeId |-> trainee.id,
                                          email |-> trainee.email], now),
                       trainee |-> formatTrainee(trainee)],
                      prisma, revokedTokens)

(* --------------------------- session service -------------------------- *)
CreateSession(request, fault) ==
    IF request.email = "" \/ request.password = ""
    THEN Fail(Err(INVALID_ARGUMENT, "Email and password are required"), FALSE)
    ELSE IF FaultAt(fault, 1) THEN Fail(InternalError, TRUE)
    ELSE LET trainee == traineeByEmail(request.email) IN
         IF trainee = Null \/ trainee.password # request.password
         THEN Fail(Err(UNAUTHENTICATED, "Invalid credentials"), FALSE)
         ELSE Succeed([token |-> jwtSign([traineeId |-> trainee.id,
                                          email |-> trainee.email], now),
                       trainee |-> formatTrainee(trainee)],
                      prisma, revokedTokens)

(* variant: the token is verified but not looked up in the set *)
DeleteSessionUnchecked(request, fault) ==
    IF ~jwtVerifyOk(request.token)
    THEN Fail(authenticateToken(request.token).error, FALSE)
    ELSE Succeed([message |-> "Successfully logged out"],
                 prisma, revokedTokens \cup {request.token})

(* variant: the token is put into the set before it is authenticated *)
DeleteSessionRevokingFirst(request, fault) ==
    LET auth == authenticateToken(request.token) IN
    IF ~auth.ok
    THEN [resp |-> Callback(auth.error), prisma |-> prisma,
          revokedTokens |-> revokedTokens \cup {request.token}, hit |-> FALSE]
    ELSE Succeed([message |-> "Successfully logged out"],
                 prisma, revokedTokens \cup {request.token})

DeleteSession(request, fault) ==
    LET auth == authenticateToken(request.token) IN
    IF ~auth.ok THEN Fail(auth.error, FALSE)
    ELSE Succeed([message |-> "Successfully logged out"],
                 prisma, revokedTokens \cup {request.token})

CheckSession(request, fault) ==
    LET auth == authenticateToken(request.token) IN
    IF ~auth.ok THEN Fail(auth.error, FALSE)
    ELSE IF FaultAt(fault, 1) THEN Fail(PrismaError(fault), TRUE)
    ELSE LET trainee == traineeById(auth.value.traineeId) IN
         IF trainee = Null THEN Fail(Err(NOT_FOUND, "Trainee not found"), FALSE)
         ELSE Succeed([authenticated |-> TRUE, trainee |-> formatTrainee(trainee)],
                      prisma, revokedTokens)

(* --------------------------- trainee service -------------------------- *)
(* variant: the window ends one row later *)
SkipTakeOneMore(rows, skip, take) ==
    IF skip >= Len(rows) THEN <<>>
    ELSE SubSeq(rows, skip + 1,
                IF skip + take + 1 > Len(rows) THEN Len(rows) ELSE skip + take + 1)

(* Array.prototype.slice-like window of findMany({ skip, take }) *)
SkipTake(rows, skip, take) ==
    IF skip >= Len(rows) THEN <<>>
    ELSE SubSeq(rows, skip + 1, IF skip + take > Len(rows) THEN Len(rows) ELSE skip + take)

ListTrainees(request, fault) ==
    LET auth == authenticateToken(request.token) IN
    IF ~auth.ok THEN Fail(CodedOrInternal(auth.error), FALSE)
    ELSE LET page == IF request.pagination = Null \/ request.pagination.page = 0
                     THEN 1 ELSE request.pagination.page
             pageSize == IF request.pagination = Null \/ request.pagination.page_size = 0
                         THEN DefaultPageSize ELSE request.pagination.page_size
             skip == (page - 1) * pageSize
             trainees == SkipTake(prisma.trainee, skip, pageSize)
         IN  IF FaultAt(fault, 1) THEN Fail(CodedOrInternal(PrismaError(fault)), TRUE)
             ELSE Succeed([data |-> [i \in 1..Len(trainees) |->
                                       formatTrainee(Select(trainees[i], PublicTrainee))],
                           pagination |-> [page |-> page, page_size |-> pageSize,
                                           total |-> Len(prisma.trainee)]],
                          prisma, revokedTokens)

(* variant: no findUnique before the create *)
CreateTraineeWithoutLookup(request, fault) ==
    IF request.name = "" \/ request.email = "" \/ request.password = ""
    THEN Fail(Err(INVALID_ARGUMENT, "Name, email, and password are required"), FALSE)
    ELSE IF FaultAt(fault, 1) \/ FaultAt(fault, 2) THEN Fail(InternalError, TRUE)
    ELSE LET created == traineeCreate([name |-> request.name, email |-> request.email,
                                       password |-> request.password,
                                       timezone |-> request.timezone]) IN
         IF ~created.ok THEN Fail(InternalError, FALSE)
         ELSE Succeed([trainee |-> formatTrainee(Select(created.row, PublicTrainee))],
                      created.prisma, revokedTokens)

CreateTrainee(request, fault) ==
    IF request.name = "" \/ request.email = "" \/ request.password = ""
    THEN Fail(Err(INVALID_ARGUMENT, "Name, email, and password are required"), FALSE)
    ELSE IF FaultAt(fault, 1) THEN Fail(InternalError, TRUE)
    ELSE IF traineeByEmail(request.email) # Null
    THEN Fail(Err(ALREADY_EXISTS, "Email is already in use"), FALSE)
    ELSE IF FaultAt(fault, 2) THEN Fail(InternalError, TRUE)
    ELSE LET created == traineeCreate([name |-> request.name, email |-> request.email,
                                       password |-> request.password,
                                       timezone |-> request.timezone]) IN
         IF ~created.ok THEN Fail(InternalError, FALSE)
         ELSE Succeed([trainee |-> formatTrainee(Select(created.row, PublicTrainee))],
                      created.prisma, revokedTokens)

GetTrainee(request, fault) ==
    LET auth == authenticateToken(request.token) IN
    IF ~auth.ok THEN Fail(CodedOrInternal(auth.error), FALSE)
    ELSE IF FaultAt(fault, 1) THEN Fail(CodedOrInternal(PrismaError(fault)), TRUE)
    ELSE LET trainee == traineeById(request.trainee_id) IN
         IF trainee = Null THEN Fail(Err(NOT_FOUND, "Trainee not found"), FALSE)
         ELSE Succeed([trainee |-> formatTrainee(Select(trainee, PublicTrainee))],
                      prisma, revokedTokens)

(* variant: a supplied '' is written like any other value *)
SparseStringsWithEmpty(request, fields) ==
    [k \in {f \in fields : request[f].has} |-> request[k].val]

(* updateData: only the fields that are supplied and not '' *)
SparseStrings(request, fields) ==
    [k \in {f \in fields : request[f].has /\ request[f].val # ""} |-> request[k].val]

UpdateTrainee(request, fault) ==
    LET auth == authenticateToken(request.token) IN
    IF ~auth.ok THEN Fail(P2025OrInternal(auth.error, "Trainee not found"), FALSE)
    ELSE IF FaultAt(fault, 1)
    THEN Fail(P2025OrInternal(PrismaError(fault), "Trainee not found"), TRUE)
    ELSE LET updateData == SparseStrings(request, {"name", "email", "password", "timezone"})
             updated == traineeUpdate(request.trainee_id, updateData) IN
         IF ~updated.ok THEN Fail(P2025OrInternal(updated.error, "Trainee not found"), FALSE)
         ELSE Succeed([trainee |-> formatTrainee(Select(updated.row, PublicTrainee))],
                      updated.prisma, revokedTokens)

(* variant: deleting a trainee revokes the tokens issued to it *)
DeleteTraineeRevoking(request, fault) ==
    LET auth == authenticateToken(request.token) IN
    IF ~auth.ok THEN Fail(P2025OrCoded(auth.error, "Trainee not found"), FALSE)
    ELSE IF FaultAt(fault, 1)
    THEN Fail(P2025OrCoded(PrismaError(fault), "Trainee not found"), TRUE)
    ELSE LET deleted == traineeDelete(request.trainee_id) IN
         IF ~deleted.ok THEN Fail(P2025OrCoded(deleted.error, "Trainee not found"), FALSE)
         ELSE Succeed([success |-> TRUE], deleted.prisma,
                      revokedTokens \cup {t \in issued : t.traineeId = request.trainee_id})

DeleteTrainee(request, fault) ==
    LET auth == authenticateToken(request.token) IN
    IF ~auth.ok THEN Fail(P2025OrCoded(auth.error, "Trainee not found"), FALSE)
    ELSE IF FaultAt(fault, 1)
    THEN Fail(P2025OrCoded(PrismaError(fault), "Trainee not found"), TRUE)
    ELSE LET deleted == traineeDelete(request.trainee_id) IN
         IF ~deleted.ok THEN Fail(P2025OrCoded(deleted.error, "Trainee not found"), FALSE)
         ELSE Succeed([success |-> TRUE], deleted.prisma, revokedTokens)

(* --------------------------- workout service -------------------------- *)
workoutById(id) == FindFirst(prisma.workout, "id", id)

(* findMany({ orderBy: { createdAt: 'desc' } }); equal keys keep table order *)
RECURSIVE NewestFirst(_)
NewestFirst(rows) ==
    IF rows = <<>> THEN <<>>
    ELSE LET newest == Min({i \in 1..Len(rows) :
                              \A j \in 1..Len(rows) : rows[j].createdAt.ms <= rows[i].createdAt.ms})
         IN  <<rows[newest]>> \o
             NewestFirst(SubSeq(rows, 1, newest - 1) \o SubSeq(rows, newest + 1, Len(rows)))

workoutCreate(data) ==
    LET row == [id |-> prisma.ids + 1, name |-> data.name, duration |-> data.duration,
                description |-> data.description, color |-> data.color,
                createdAt |-> Today, updatedAt |-> Today]
    IN  [ok |-> TRUE, row |-> row,
         prisma |-> [prisma EXCEPT !.workout = Append(@, row), !.ids = @ + 1]]

workoutUpdate(id, data) ==
    IF workoutById(id) = Null
    THEN [ok |-> FALSE, error |-> PrismaKnown("P2025")]
    ELSE LET row == Patch(workoutById(id), data)
         IN  [ok |-> TRUE, row |-> row,
              prisma |-> [prisma EXCEPT !.workout =
                            [i \in 1..Len(@) |-> IF @[i].id = id THEN row ELSE @[i]]]]

workoutDelete(id) ==
    IF workoutById(id) = Null
    THEN [ok |-> FALSE, error |-> PrismaKnown("P2025")]
    ELSE [ok |-> TRUE,
          prisma |-> [prisma EXCEPT !.workout = Without(@, "id", id)]]

ListWorkouts(request, fault) ==
    LET auth == authenticateToken(request.token) IN
    IF ~auth.ok THEN Fail(CodedOrInternal(auth.error), FALSE)
    ELSE IF FaultAt(fault, 1) THEN Fail(CodedOrInternal(PrismaError(fault)), TRUE)
    ELSE Succeed([workouts |-> NewestFirst(prisma.workout)], prisma, revokedTokens)

CreateWorkout(request, fault) ==
    LET auth == authenticateToken(request.token) IN
    IF ~auth.ok THEN Fail(CodedOrInternal(auth.error), FALSE)
    ELSE IF request.name = "" \/ request.duration = 0
    THEN Fail(Err(INVALID_ARGUMENT, "Name and duration are required"), FALSE)
    ELSE IF FaultAt(fault, 1) THEN Fail(CodedOrInternal(PrismaError(fault)), TRUE)
    ELSE LET created == workoutCreate([name |-> request.name, duration |-> request.duration,
                                       description |-> request.description,
                                       color |-> request.color])
         IN  Succeed([workout |-> created.row], created.prisma, revokedTokens)

GetWorkout(request, fault) ==
    LET auth == authenticateToken(request.token) IN
    IF ~auth.ok THEN Fail(CodedOrInternal(auth.error), FALSE)
    ELSE IF FaultAt(fault, 1) THEN Fail(CodedOrInternal(PrismaError(fault)), TRUE)
    ELSE LET workout == workoutById(request.workout_id) IN
         IF workout = Null THEN Fail(Err(NOT_FOUND, "Workout not found"), FALSE)
         ELSE Succeed([workout |-> workout], prisma, revokedTokens)

(* variant: the duration is written whether or not the request carries it *)
UpdateWorkoutWritingDuration(request, fault) ==
    LET auth == authenticateToken(request.token) IN
    IF ~auth.ok THEN Fail(P2025OrInternal(auth.error, "Workout not found"), FALSE)
    ELSE IF FaultAt(fault, 1)
    THEN Fail(P2025OrInternal(PrismaError(fault), "Workout not found"), TRUE)
    ELSE LET strings == SparseStrings(request, {"name", "description", "color"})
             updateData == [k \in (DOMAIN strings) \cup {"duration"} |->
                              IF k = "duration"
                              THEN (IF request.duration.has THEN request.duration.val ELSE 0)
                              ELSE strings[k]]
             updated == workoutUpdate(request.workout_id, updateData) IN
         IF ~updated.ok THEN Fail(P2025OrInternal(updated.error, "Workout not found"), FALSE)
         ELSE Succeed([workout |-> updated.row], updated.prisma, revokedTokens)

UpdateWorkout(request, fault) ==
    LET auth == authenticateToken(request.token) IN
    IF ~auth.ok THEN Fail(P2025OrInternal(auth.error, "Workout not found"), FALSE)
    ELSE IF FaultAt(fault, 1)
    THEN Fail(P2025OrInternal(PrismaError(fault), "Workout not found"), TRUE)
    ELSE LET strings == SparseStrings(request, {"name", "description", "color"})
             updateData == [k \in (DOMAIN strings) \cup
                                  (IF request.duration.has THEN {"duration"} ELSE {}) |->
                              IF k = "duration" THEN request.duration.val ELSE strings[k]]
             updated == workoutUpdate(request.workout_id, updateData) IN
         IF ~updated.ok THEN Fail(P2025OrInternal(updated.error, "Workout not found"), FALSE)
         ELSE Succeed([workout |-> updated.row], updated.prisma, revokedTokens)

DeleteWorkout(request, fault) ==
    LET auth == authenticateToken(request.token) IN
    IF ~auth.ok THEN Fail(P2025OrCoded(auth.error, "Workout not found"), FALSE)
    ELSE IF FaultAt(fault, 1)
    THEN Fail(P2025OrCoded(PrismaError(fault), "Workout not found"), TRUE)
    ELSE LET deleted == workoutDelete(request.workout_id) IN
         IF ~deleted.ok THEN Fail(P2025OrCoded(deleted.error, "Workout not found"), FALSE)
         ELSE Succeed([success |-> TRUE], deleted.prisma, revokedTokens)

(* --------------------------- routine service -------------------------- *)
(* include: { trainee: { select: {...} } } *)
IncludeTrainee(row) ==
    [k \in (DOMAIN row) \cup {"trainee"} |->
        IF k = "trainee"
        THEN (IF traineeById(row.userId) = Null THEN Null
              ELSE Select(traineeById(row.userId), JoinedTrainee))
        ELSE row[k]]

(* variant: the slots are returned last first *)
formatRoutineLastSlotFirst(routine) ==
    LET slots == JSONparse(routine.availability) IN
    [id |-> routine.id,
     user_id |-> routine.userId,
     availability |-> [i \in 1..Len(slots) |-> slots[Len(slots) + 1 - i]],
     trainee |-> IF routine.trainee # Null THEN formatTrainee(routine.trainee) ELSE Null,
     created_at |-> convertTimestamp(routine.createdAt),
     updated_at |-> convertTimestamp(routine.updatedAt)]

formatRoutine(routine) ==
    [id |-> routine.id,
     user_id |-> routine.userId,
     availability |-> JSONparse(routine.availability),
     trainee |-> IF routine.trainee # Null THEN formatTrainee(routine.trainee) ELSE Null,
     created_at |-> convertTimestamp(routine.createdAt),
     updated_at |-> convertTimestamp(routine.updatedAt)]

(* the index on routine.userId is not a unique one: a trainee has zero or *)
(* more routines, so no create is refused because the owner has one      *)
routineOwnerTaken(userId) == FALSE

routineCreate(data) ==
    IF routineOwnerTaken(data.userId)
    THEN [ok |-> FALSE, error |-> PrismaKnown("P2002")]
    ELSE LET row == [id |-> prisma.ids + 1, userId |-> data.userId,
                     availability |-> data.availability,
                     createdAt |-> Today, updatedAt |-> Today]
         IN  [ok |-> TRUE, row |-> row,
              prisma |-> [prisma EXCEPT !.routine = Append(@, row), !.ids = @ + 1]]

routineFindFirst(userId) == FindFirst(prisma.routine, "userId", userId)

routineUpdateMany(userId, data) ==
    [count |-> Count(prisma.routine, "userId", userId),
     prisma |-> [prisma EXCEPT !.routine =
                   [i \in 1..Len(@) |->
                      IF @[i].userId = userId THEN Patch(@[i], data) ELSE @[i]]]]

routineDeleteMany(userId) ==
    [count |-> Count(prisma.routine, "userId", userId),
     prisma |-> [prisma EXCEPT !.routine = Without(@, "userId", userId)]]

ListRoutines(request, fault) ==
    LET auth == authenticateToken(request.token) IN
    IF ~auth.ok THEN Fail(CodedOrInternal(auth.error), FALSE)
    ELSE IF FaultAt(fault, 1) THEN Fail(CodedOrInternal(PrismaError(fault)), TRUE)
    ELSE LET filtered == request.trainee_id.has /\ request.trainee_id.val # 0
             rows == IF filtered
                     THEN Matching(prisma.routine, "userId", request.trainee_id.val)
                     ELSE prisma.routine
             routines == NewestFirst(rows)
         IN  Succeed([routines |-> [i \in 1..Len(routines) |->
                                      formatRoutine(IncludeTrainee(routines[i]))]],
                     prisma, revokedTokens)

CreateRoutine(request, fault) ==
    LET auth == authenticateToken(request.token) IN
    IF ~auth.ok THEN Fail(CodedOrInternal(auth.error), FALSE)
    ELSE IF request.user_id = 0 \/ Len(request.availability) = 0
    THEN Fail(Err(INVALID_ARGUMENT, "user_id and availability are required"), FALSE)
    ELSE IF FaultAt(fault, 1) THEN Fail(CodedOrInternal(PrismaError(fault)), TRUE)
    ELSE IF traineeById(request.user_id) = Null
    THEN Fail(Err(NOT_FOUND, "Trainee not found"), FALSE)
    ELSE IF FaultAt(fault, 2) THEN Fail(CodedOrInternal(PrismaError(fault)), TRUE)
    ELSE LET created == routineCreate([userId |-> request.user_id,
                                       availability |-> JSONstringify(request.availability)])
         IN  IF ~created.ok THEN Fail(CodedOrInternal(created.error), FALSE)
             ELSE Succeed([routine |-> formatRoutine(IncludeTrainee(created.row))],
                          created.prisma, revokedTokens)

GetTraineeRoutine(request, fault) ==
    LET auth == authenticateToken(request.token) IN
    IF ~auth.ok THEN Fail(CodedOrInternal(auth.error), FALSE)
    ELSE IF FaultAt(fault, 1) THEN Fail(CodedOrInternal(PrismaError(fault)), TRUE)
    ELSE LET routine == routineFindFirst(request.trainee_id) IN
         IF routine = Null THEN Fail(Err(NOT_FOUND, "Routine not found"), FALSE)
         ELSE Succeed([routine |-> formatRoutine(IncludeTrainee(routine))],
                      prisma, revokedTokens)

(* variant: a trainee may only update the routine of its own token *)
UpdateTraineeRoutineOfOwnerOnly(request, fault) ==
    LET auth == authenticateToken(request.token) IN
    IF ~auth.ok THEN Fail(InternalError, FALSE)
    ELSE IF auth.value.traineeId # request.trainee_id
    THEN Fail(Err(NOT_FOUND, "Routine not found"), FALSE)
    ELSE IF Len(request.availability) = 0
    THEN Fail(Err(INVALID_ARGUMENT, "availability is required"), FALSE)
    ELSE IF FaultAt(fault, 1) THEN Fail(InternalError, TRUE)
    ELSE LET updatedRoutine == routineUpdateMany(request.trainee_id,
                 [availability |-> JSONstringify(request.availability)]) IN
         IF updatedRoutine.count = 0
         THEN Fail(Err(NOT_FOUND, "Routine not found"), FALSE)
         ELSE IF FaultAt(fault, 2)
         THEN [resp |-> Callback(InternalError), prisma |-> updatedRoutine.prisma,
               revokedTokens |-> revokedTokens, hit |-> TRUE]
         ELSE LET routine == FindFirst(updatedRoutine.prisma.routine,
                                       "userId", request.trainee_id)
              IN  Succeed([routine |-> formatRoutine(IncludeTrainee(routine))],
                          updatedRoutine.prisma, revokedTokens)

UpdateTraineeRoutine(request, fault) ==
    LET auth == authenticateToken(request.token) IN
    IF ~auth.ok THEN Fail(InternalError, FALSE)
    ELSE IF Len(request.availability) = 0
    THEN Fail(Err(INVALID_ARGUMENT, "availability is required"), FALSE)
    ELSE IF FaultAt(fault, 1) THEN Fail(InternalError, TRUE)
    ELSE LET updatedRoutine == routineUpdateMany(request.trainee_id,
                 [availability |-> JSONstringify(request.availability)]) IN
         IF updatedRoutine.count = 0
         THEN Fail(Err(NOT_FOUND, "Routine not found"), FALSE)
         ELSE IF FaultAt(fault, 2)
         THEN [resp |-> Callback(InternalError), prisma |-> updatedRoutine.prisma,
               revokedTokens |-> revokedTokens, hit |-> TRUE]
         ELSE LET routine == FindFirst(updatedRoutine.prisma.routine,
                                       "userId", request.trainee_id)
              IN  Succeed([routine |-> formatRoutine(IncludeTrainee(routine))],
                          updatedRoutine.prisma, revokedTokens)

DeleteTraineeRoutine(request, fault) ==
    LET auth == authenticateToken(request.token) IN
    IF ~auth.ok THEN Fail(CodedOrInternal(auth.error), FALSE)
    ELSE IF FaultAt(fault, 1) THEN Fail(CodedOrInternal(PrismaError(fault)), TRUE)
    ELSE LET deletedRoutine == routineDeleteMany(request.trainee_id) IN
         IF deletedRoutine.count = 0
         THEN Fail(Err(NOT_FOUND, "Routine not found"), FALSE)
         ELSE Succeed([success |-> TRUE], deletedRoutine.prisma, revokedTokens)

(* ------------------------- registration service ----------------------- *)
formatRegistration(registration) ==
    [id |-> registration.id,
     event_id |-> registration.eventId,
     user_id |-> registration.userId,
     invitee_email |-> registration.inviteeEmail,
     start_time |-> convertTimestamp(registration.startTime),
     end_time |-> convertTimestamp(registration.endTime),
     status |-> registration.status,
     trainee |-> IF registration.trainee # Null
                 THEN formatTrainee(registration.trainee) ELSE Null,
     created_at |-> convertTimestamp(registration.createdAt),
     updated_at |-> convertTimestamp(registration.updatedAt)]

registrationById(id) == FindFirst(prisma.registration, "id", id)

registrationCreate(data) ==
    LET row == [id |-> prisma.ids + 1, eventId |-> data.eventId, userId |-> data.userId,
                inviteeEmail |-> data.inviteeEmail, startTime |-> data.startTime,
                endTime |-> data.endTime, status |-> data.status,
                createdAt |-> Today, updatedAt |-> Today]
    IN  [ok |-> TRUE, row |-> row,
         prisma |-> [prisma EXCEPT !.registration = Append(@, row), !.ids = @ + 1]]

registrationUpdate(id, data) ==
    IF registrationById(id) = Null
    THEN [ok |-> FALSE, error |-> PrismaKnown("P2025")]
    ELSE LET row == Patch(registrationById(id), data)
         IN  [ok |-> TRUE, row |-> row,
              prisma |-> [prisma EXCEPT !.registration =
                            [i \in 1..Len(@) |-> IF @[i].id = id THEN row ELSE @[i]]]]

registrationDelete(id) ==
    IF registrationById(id) = Null
    THEN [ok |-> FALSE, error |-> PrismaKnown("P2025")]
    ELSE [ok |-> TRUE,
          prisma |-> [prisma EXCEPT !.registration = Without(@, "id", id)]]

ListRegistrations(request, fault) ==
    LET auth == authenticateToken(request.token) IN
    IF ~auth.ok THEN Fail(CodedOrInternal(auth.error), FALSE)
    ELSE IF FaultAt(fault, 1) THEN Fail(CodedOrInternal(PrismaError(fault)), TRUE)
    ELSE LET registrations == NewestFirst(prisma.registration)
         IN  Succeed([registrations |-> [i \in 1..Len(registrations) |->
                          formatRegistration(IncludeTrainee(registrations[i]))]],
                     prisma, revokedTokens)

(* variant: start_time is not among the required fields *)
CreateRegistrationWithoutStartTimeCheck(request, fault) ==
    LET auth == authenticateToken(request.token) IN
    IF ~auth.ok THEN Fail(CodedOrInternal(auth.error), FALSE)
    ELSE IF request.event_id = "" \/ request.user_id = 0 \/ request.invitee_email = ""
    THEN Fail(Err(INVALID_ARGUMENT,
                  "event_id, user_id, invitee_email, and start_time are required"), FALSE)
    ELSE IF FaultAt(fault, 1) THEN Fail(CodedOrInternal(PrismaError(fault)), TRUE)
    ELSE IF traineeById(request.user_id) = Null
    THEN Fail(Err(NOT_FOUND, "Trainee not found"), FALSE)
    ELSE IF FaultAt(fault, 2) THEN Fail(CodedOrInternal(PrismaError(fault)), TRUE)
    ELSE LET created == registrationCreate(
                 [eventId |-> request.event_id,
                  userId |-> request.user_id,
                  inviteeEmail |-> request.invitee_email,
                  startTime |-> convertFromTimestamp(request.start_time),
                  endTime |-> IF request.end_time # Null
                              THEN convertFromTimestamp(request.end_time) ELSE Null,
                  status |-> IF request.status # "" THEN request.status ELSE "scheduled"])
         IN  Succeed([registration |-> formatRegistration(IncludeTrainee(created.row))],
                     created.prisma, revokedTokens)

CreateRegistration(request, fault) ==
    LET auth == authenticateToken(request.token) IN
    IF ~auth.ok THEN Fail(CodedOrInternal(auth.error), FALSE)
    ELSE IF request.event_id = "" \/ request.user_id = 0
            \/ request.invitee_email = "" \/ request.start_time = Null
    THEN Fail(Err(INVALID_ARGUMENT,
                  "event_id, user_id, invitee_email, and start_time are required"), FALSE)
    ELSE IF FaultAt(fault, 1) THEN Fail(CodedOrInternal(PrismaError(fault)), TRUE)
    ELSE IF traineeById(request.user_id) = Null
    THEN Fail(Err(NOT_FOUND, "Trainee not found"), FALSE)
    ELSE IF FaultAt(fault, 2) THEN Fail(CodedOrInternal(PrismaError(fault)), TRUE)
    ELSE LET created == registrationCreate(
                 [eventId |-> request.event_id,
                  userId |-> request.user_id,
                  inviteeEmail |-> request.invitee_email,
                  startTime |-> convertFromTimestamp(request.start_time),
                  endTime |-> IF request.end_time # Null
                              THEN convertFromTimestamp(request.end_time) ELSE Null,
                  status |-> IF request.status # "" THEN request.status ELSE "scheduled"])
         IN  Succeed([registration |-> formatRegistration(IncludeTrainee(created.row))],
                     created.prisma, revokedTokens)

GetRegistration(request, fault) ==
    LET auth == authenticateToken(request.token) IN
    IF ~auth.ok THEN Fail(CodedOrInternal(auth.error), FALSE)
    ELSE IF FaultAt(fault, 1) THEN Fail(CodedOrInternal(PrismaError(fault)), TRUE)
    ELSE LET registration == registrationById(request.registration_id) IN
         IF registration = Null THEN Fail(Err(NOT_FOUND, "Registration not found"), FALSE)
         ELSE Succeed([registration |-> formatRegistration(IncludeTrainee(registration))],
                      prisma, revokedTokens)

(* updateData of UpdateRegistration, keyed by column *)
RegistrationUpdateData(request) ==
    LET set == (IF request.event_id.has /\ request.event_id.val # "" THEN {"eventId"} ELSE {})
          \cup (IF request.user_id.has /\ request.user_id.val # 0 THEN {"userId"} ELSE {})
          \cup (IF request.invitee_email.has /\ request.invitee_email.val # ""
                THEN {"inviteeEmail"} ELSE {})
          \cup (IF request.start_time.has THEN {"startTime"} ELSE {})
          \cup (IF request.end_time.has THEN {"endTime"} ELSE {})
          \cup (IF request.status.has /\ request.status.val # "" THEN {"status"} ELSE {})
    IN  [k \in set |->
           CASE k = "eventId" -> request.event_id.val
             [] k = "userId" -> request.user_id.val
             [] k = "inviteeEmail" -> request.invitee_email.val
             [] k = "startTime" -> convertFromTimestamp(request.start_time.val)
             [] k = "endTime" -> IF request.end_time.val # Null
                                 THEN convertFromTimestamp(request.end_time.val) ELSE Null
             [] k = "status" -> request.status.val]

UpdateRegistration(request, fault) ==
    LET auth == authenticateToken(request.token) IN
    IF ~auth.ok THEN Fail(P2025OrInternal(auth.error, "Registration not found"), FALSE)
    ELSE IF FaultAt(fault, 1)
    THEN Fail(P2025OrInternal(PrismaError(fault), "Registration not found"), TRUE)
    ELSE LET updated == registrationUpdate(request.registration_id,
                                           RegistrationUpdateData(request)) IN
         IF ~updated.ok
         THEN Fail(P2025OrInternal(updated.error, "Registration not found"), FALSE)
         ELSE Succeed([registration |-> formatRegistration(IncludeTrainee(updated.row))],
                      updated.prisma, revokedTokens)

DeleteRegistration(request, fault) ==
    LET auth == authenticateToken(request.token) IN
    IF ~auth.ok THEN Fail(P2025OrCoded(auth.error, "Registration not found"), FALSE)
    ELSE IF FaultAt(fault, 1)
    THEN Fail(P2025OrCoded(PrismaError(fault), "Registration not found"), TRUE)
    ELSE LET deleted == registrationDelete(request.registration_id) IN
         IF ~deleted.ok THEN Fail(P2025OrCoded(deleted.error, "Registration not found"), FALSE)
         ELSE Succeed([success |-> TRUE], deleted.prisma, revokedTokens)

(* ------------------------------ dispatch ------------------------------ *)
(* server.addService(...): the handler registered under each RPC name *)
Handle(rpc, request, fault) ==
    CASE rpc = "CreateSession" -> CreateSession(request, fault)
      [] rpc = "DeleteSession" -> DeleteSession(request, fault)
      [] rpc = "CheckSession" -> CheckSession(request, fault)
      [] rpc = "ListTrainees" -> ListTrainees(request, fault)
      [] rpc = "CreateTrainee" -> CreateTrainee(request, fault)
      [] rpc = "GetTrainee" -> GetTrainee(request, fault)
      [] rpc = "UpdateTrainee" -> UpdateTrainee(request, fault)
      [] rpc = "DeleteTrainee" -> DeleteTrainee(request, fault)
      [] rpc = "ListWorkouts" -> ListWorkouts(request, fault)
      [] rpc = "CreateWorkout" -> CreateWorkout(request, fault)
      [] rpc = "GetWorkout" -> GetWorkout(request, fault)
      [] rpc = "UpdateWorkout" -> UpdateWorkout(request, fault)
      [] rpc = "DeleteWorkout" -> DeleteWorkout(request, fault)
      [] rpc = "ListRoutines" -> ListRoutines(request, fault)
      [] rpc = "CreateRoutine" -> CreateRoutine(request, fault)
      [] rpc = "GetTraineeRoutine" -> GetTraineeRoutine(request, fault)
      [] rpc = "UpdateTraineeRoutine" -> UpdateTraineeRoutine(request, fault)
      [] rpc = "DeleteTraineeRoutine" -> DeleteTraineeRoutine(request, fault)
      [] rpc = "ListRegistrations" -> ListRegistrations(request, fault)
      [] rpc = "CreateRegistration" -> CreateRegistration(request, fault)
      [] rpc = "GetRegistration" -> GetRegistration(request, fault)
      [] rpc = "UpdateRegistration" -> UpdateRegistration(request, fault)
      [] rpc = "DeleteRegistration" -> DeleteRegistration(request, fault)

(* ------------------------------ requests ------------------------------ *)
(* The requests the clients send.  Ids: every id handed out so far and    *)
(* one that never was.                                                    *)
Ids == 1..(IF prisma.ids < MaxGrowth THEN prisma.ids + 1 ELSE prisma.ids)
BadTokens == {NoToken, MalformedToken, ForgedToken}

Slot1 == [day |-> "Mon", start_time |-> "08:00", end_time |-> "09:00"]
Slot2 == [day |-> "Tue", start_time |-> "10:00", end_time |-> "11:00"]
Stamp == [seconds |-> 3600, nanos |-> 0]

With(request, extra) ==
    [k \in (DOMAIN request) \cup (DOMAIN extra) |->
        IF k \in DOMAIN extra THEN extra[k] ELSE request[k]]

(* <<request, fault>> pairs of a token-taking RPC: every shape with every *)
(* issued token; the probe shapes also with each storage fault and with   *)
(* each token that was never issued.                                      *)
Calls(shapes, probes, nOps) ==
    {<<With(r, [token |-> t]), NoFault>> : r \in shapes \cup probes, t \in issued}
    \cup {<<With(r, [token |-> t]), f>> :
             r \in probes, t \in issued, f \in Faults(nOps) \ {NoFault}}
    \cup {<<With(r, [token |-> t]), NoFault>> : r \in probes, t \in BadTokens}

NoPatchTrainee ==
    [name |-> Absent, email |-> Absent, password |-> Absent, timezone |-> Absent]
TraineePatches ==
    {NoPatchTrainee, [NoPatchTrainee EXCEPT !.name = Some("")],
     [NoPatchTrainee EXCEPT !.password = Some("pw2")]}
    \cup {[NoPatchTrainee EXCEPT !.email = Some(e)] : e \in Emails}

NoPatchWorkout ==
    [name |-> Absent, duration |-> Absent, description |-> Absent, color |-> Absent]
WorkoutPatches ==
    {NoPatchWorkout, [NoPatchWorkout EXCEPT !.name = Some("")],
     [NoPatchWorkout EXCEPT !.duration = Some(0)],
     [NoPatchWorkout EXCEPT !.duration = Some(45)],
     [NoPatchWorkout EXCEPT !.color = Some("red")]}

NoPatchRegistration ==
    [event_id |-> Absent, user_id |-> Absent, invitee_email |-> Absent,
     start_time |-> Absent, end_time |-> Absent, status |-> Absent]
RegistrationPatches ==
    {NoPatchRegistration, [NoPatchRegistration EXCEPT !.status = Some("")],
     [NoPatchRegistration EXCEPT !.status = Some("done")],
     [NoPatchRegistration EXCEPT !.user_id = Some(1)],
     [NoPatchRegistration EXCEPT !.user_id = Some(2)]}

LoginProbe == [email |-> "a@x.com", password |-> "pw"]
LoginRequests ==
    [email : Emails, password : {"pw", "pw2"}]
    \cup {[LoginProbe EXCEPT !.email = ""], [LoginProbe EXCEPT !.password = ""]}

NewTrainee == [name |-> "A", email |-> "a@x.com", password |-> "pw", timezone |-> "UTC"]
SignupRequests ==
    {[NewTrainee EXCEPT !.email = e] : e \in Emails}
    \cup {[NewTrainee EXCEPT !.name = ""], [NewTrainee EXCEPT !.email = ""],
          [NewTrainee EXCEPT !.password = ""]}

NewRegistration ==
    [event_id |-> "ev", user_id |-> 1, invitee_email |-> "i@x.com",
     start_time |-> Stamp, end_time |-> Null, status |-> ""]

(* ------------------------------ actions ------------------------------- *)
NoCall == [rpc |-> "none", request |-> [token |-> NoToken], fault |-> NoFault]
NoResp == [code |-> "none", body |-> [message |-> ""]]

NoConversion == [at |-> "none", date |-> Null, timestamp |-> Null, back |-> Null]

Slots == 1..MaxInFlight
Idle == [at |-> "idle", request |-> NewTrainee]

Init ==
    /\ prisma = [trainee |-> <<>>, workout |-> <<>>, routine |-> <<>>,
                 registration |-> <<>>, ids |-> 0]
    /\ revokedTokens = {}
    /\ now = 0
    /\ issued = {}
    /\ call = NoCall
    /\ resp = NoResp
    /\ workload \in {"trainee", "workout", "routine", "registration"}
    /\ inflight = [s \in Slots |-> Idle]
    /\ budget = MaxGrowth
    /\ written = [id \in {} |-> <<>>]
    /\ conversion = NoConversion

(* The availability each stored routine was last sent: CreateRoutine     *)
(* sends it for the row it adds, UpdateTraineeRoutine for every row its  *)
(* updateMany rewrites; rows that are gone are forgotten.                *)
Written(rpc, request, out) ==
    LET before == {prisma.routine[i] : i \in 1..Len(prisma.routine)}
        after == {out.prisma.routine[i] : i \in 1..Len(out.prisma.routine)}
        sent(row) ==
            \/ rpc = "CreateRoutine" /\ row \notin before
            \/ /\ rpc = "UpdateTraineeRoutine" /\ row.userId = request.trainee_id
               /\ (out.resp.code = OK \/ row \notin before)
    IN  [id \in {row.id : row \in after} |->
           LET row == CHOOSE r \in after : r.id = id
           IN  IF sent(row) THEN request.availability ELSE written[id]]

Growth(p, tokens, clock) == p.ids + Cardinality(tokens) + clock

(* One RPC served from start to finish; the response is then on its way  *)
(* to the client until Deliver.                                          *)
Serve(rpc, request, fault, out) ==
    LET tokens == IF rpc = "CreateSession" /\ out.resp.code = OK
                  THEN issued \cup {out.resp.body.token} ELSE issued
    IN  /\ fault = NoFault \/ out.hit
        /\ Growth(out.prisma, tokens, now) <= budget
        /\ prisma' = out.prisma
        /\ revokedTokens' = out.revokedTokens
        /\ issued' = tokens
        /\ call' = [rpc |-> rpc, request |-> request, fault |-> fault]
        /\ resp' = out.resp
        /\ written' = Written(rpc, request, out)
        /\ UNCHANGED <<now, workload, inflight, budget, conversion>>

Deliver ==
    /\ call # NoCall
    /\ call' = NoCall
    /\ resp' = NoResp
    /\ UNCHANGED <<prisma, revokedTokens, now, issued, workload, inflight, budget,
                   written, conversion>>

Tick ==
    /\ call = NoCall
    /\ Growth(prisma, issued, now) < budget
    /\ now' = now + 1
    /\ UNCHANGED <<prisma, revokedTokens, issued, call, resp, workload, inflight, budget,
                   written, conversion>>

RpcCreateSession ==
    /\ call = NoCall
    /\ \E request \in LoginRequests, fault \in Faults(1) :
          /\ fault = NoFault \/ request = LoginProbe
          /\ Serve("CreateSession", request, fault, CreateSession(request, fault))

RpcDeleteSession ==
    /\ call = NoCall
    /\ \E c \in Calls({}, {[token |-> NoToken]}, 0) :
          Serve("DeleteSession", c[1], c[2], DeleteSession(c[1], c[2]))

RpcCheckSession ==
    /\ call = NoCall
    /\ \E c \in Calls({}, {[token |-> NoToken]}, 1) :
          Serve("CheckSession", c[1], c[2], CheckSession(c[1], c[2]))

RpcCreateTrainee ==
    /\ call = NoCall
    /\ \E request \in SignupRequests, fault \in Faults(2) :
          /\ fault = NoFault \/ request = NewTrainee
          /\ Serve("CreateTrainee", request, fault, CreateTrainee(request, fault))

RpcDeleteTrainee ==
    /\ call = NoCall
    /\ \E c \in Calls({[trainee_id |-> id] : id \in Ids}, {[trainee_id |-> 1]}, 1) :
          Serve("DeleteTrainee", c[1], c[2], DeleteTrainee(c[1], c[2]))

(* the pages and page sizes asked for: a listing run pages through a    *)
(* filled table, the other runs through the few rows they create       *)
RpcListTrainees ==
    /\ call = NoCall /\ workload \in {"trainee", "listing"}
    /\ \E c \in Calls({[pagination |-> [page |-> pg, page_size |-> sz]] :
                          pg \in 0..(IF workload = "listing" THEN MaxPage ELSE 2),
                          sz \in 0..(IF workload = "listing" THEN MaxPageSize ELSE 1)},
                      {[pagination |-> Null]}, 1) :
          Serve("ListTrainees", c[1], c[2], ListTrainees(c[1], c[2]))

RpcGetTrainee ==
    /\ call = NoCall /\ workload = "trainee"
    /\ \E c \in Calls({[trainee_id |-> id] : id \in Ids}, {[trainee_id |-> 1]}, 1) :
          Serve("GetTrainee", c[1], c[2], GetTrainee(c[1], c[2]))

RpcUpdateTrainee ==
    /\ call = NoCall /\ workload = "trainee"
    /\ \E c \in Calls({With(patch, [trainee_id |-> id]) :
                          patch \in TraineePatches, id \in Ids},
                      {With(NoPatchTrainee, [trainee_id |-> 1])}, 1) :
          Serve("UpdateTrainee", c[1], c[2], UpdateTrainee(c[1], c[2]))

RpcListWorkouts ==
    /\ call = NoCall /\ workload = "workout"
    /\ \E c \in Calls({}, {[token |-> NoToken]}, 1) :
          Serve("ListWorkouts", c[1], c[2], ListWorkouts(c[1], c[2]))

RpcCreateWorkout ==
    /\ call = NoCall /\ workload = "workout"
    /\ \E c \in Calls({[name |-> n, duration |-> d, description |-> "", color |-> ""] :
                          n \in {"", "Run"}, d \in {0, 30}},
                      {[name |-> n, duration |-> 30, description |-> "", color |-> ""] :
                          n \in {"", "Run"}}, 1) :
          Serve("CreateWorkout", c[1], c[2], CreateWorkout(c[1], c[2]))

RpcGetWorkout ==
    /\ call = NoCall /\ workload = "workout"
    /\ \E c \in Calls({[workout_id |-> id] : id \in Ids}, {[workout_id |-> 1]}, 1) :
          Serve("GetWorkout", c[1], c[2], GetWorkout(c[1], c[2]))

RpcUpdateWorkout ==
    /\ call = NoCall /\ workload = "workout"
    /\ \E c \in Calls({With(patch, [workout_id |-> id]) :
                          patch \in WorkoutPatches, id \in Ids},
                      {With(NoPatchWorkout, [workout_id |-> 1])}, 1) :
          Serve("UpdateWorkout", c[1], c[2], UpdateWorkout(c[1], c[2]))

RpcDeleteWorkout ==
    /\ call = NoCall /\ workload = "workout"
    /\ \E c \in Calls({[workout_id |-> id] : id \in Ids}, {[workout_id |-> 1]}, 1) :
          Serve("DeleteWorkout", c[1], c[2], DeleteWorkout(c[1], c[2]))

RpcListRoutines ==
    /\ call = NoCall /\ workload = "routine"
    /\ \E c \in Calls({[trainee_id |-> id] : id \in Opt({0} \cup Ids)},
                      {[trainee_id |-> Absent]}, 1) :
          Serve("ListRoutines", c[1], c[2], ListRoutines(c[1], c[2]))

RpcCreateRoutine ==
    /\ call = NoCall /\ workload = "routine"
    /\ \E c \in Calls({[user_id |-> id, availability |-> av] :
                          id \in {0} \cup Ids, av \in {<<Slot1>>, <<Slot2, Slot1, Slot1>>}},
                      {[user_id |-> 1, availability |-> av] : av \in {<<>>, <<Slot1>>}}, 2) :
          Serve("CreateRoutine", c[1], c[2], CreateRoutine(c[1], c[2]))

RpcGetTraineeRoutine ==
    /\ call = NoCall /\ workload = "routine"
    /\ \E c \in Calls({[trainee_id |-> id] : id \in Ids}, {[trainee_id |-> 1]}, 1) :
          Serve("GetTraineeRoutine", c[1], c[2], GetTraineeRoutine(c[1], c[2]))

RpcUpdateTraineeRoutine ==
    /\ call = NoCall /\ workload = "routine"
    /\ \E c \in Calls({[trainee_id |-> id, availability |-> av] :
                          id \in Ids, av \in {<<Slot1>>, <<Slot2, Slot1, Slot1>>}},
                      {[trainee_id |-> 1, availability |-> av] : av \in {<<>>, <<Slot1>>}}, 2) :
          Serve("UpdateTraineeRoutine", c[1], c[2], UpdateTraineeRoutine(c[1], c[2]))

RpcDeleteTraineeRoutine ==
    /\ call = NoCall /\ workload = "routine"
    /\ \E c \in Calls({[trainee_id |-> id] : id \in Ids}, {[trainee_id |-> 1]}, 1) :
          Serve("DeleteTraineeRoutine", c[1], c[2], DeleteTraineeRoutine(c[1], c[2]))

RpcListRegistrations ==
    /\ call = NoCall /\ workload = "registration"
    /\ \E c \in Calls({}, {[token |-> NoToken]}, 1) :
          Serve("ListRegistrations", c[1], c[2], ListRegistrations(c[1], c[2]))

RpcCreateRegistration ==
    /\ call = NoCall /\ workload = "registration"
    /\ \E c \in Calls({[NewRegistration EXCEPT !.user_id = id] : id \in {0} \cup Ids}
                      \cup {[NewRegistration EXCEPT !.event_id = ""],
                            [NewRegistration EXCEPT !.invitee_email = ""]},
                      {NewRegistration, [NewRegistration EXCEPT !.start_time = Null]}, 2) :
          Serve("CreateRegistration", c[1], c[2], CreateRegistration(c[1], c[2]))

RpcGetRegistration ==
    /\ call = NoCall /\ workload = "registration"
    /\ \E c \in Calls({[registration_id |-> id] : id \in Ids},
                      {[registration_id |-> 1]}, 1) :
          Serve("GetRegistration", c[1], c[2], GetRegistration(c[1], c[2]))

RpcUpdateRegistration ==
    /\ call = NoCall /\ workload = "registration"
    /\ \E c \in Calls({With(patch, [registration_id |-> id]) :
                          patch \in RegistrationPatches, id \in Ids},
                      {With(NoPatchRegistration, [registration_id |-> 1])}, 1) :
          Serve("UpdateRegistration", c[1], c[2], UpdateRegistration(c[1], c[2]))

RpcDeleteRegistration ==
    /\ call = NoCall /\ workload = "registration"
    /\ \E c \in Calls({[registration_id |-> id] : id \in Ids},
                      {[registration_id |-> 1]}, 1) :
          Serve("DeleteRegistration", c[1], c[2], DeleteRegistration(c[1], c[2]))

Next ==
    \/ Tick \/ Deliver
    \/ RpcCreateSession \/ RpcDeleteSession \/ RpcCheckSession
    \/ RpcListTrainees \/ RpcCreateTrainee \/ RpcGetTrainee
    \/ RpcUpdateTrainee \/ RpcDeleteTrainee
    \/ RpcListWorkouts \/ RpcCreateWorkout \/ RpcGetWorkout
    \/ RpcUpdateWorkout \/ RpcDeleteWorkout
    \/ RpcListRoutines \/ RpcCreateRoutine \/ RpcGetTraineeRoutine
    \/ RpcUpdateTraineeRoutine \/ RpcDeleteTraineeRoutine
    \/ RpcListRegistrations \/ RpcCreateRegistration \/ RpcGetRegistration
    \/ RpcUpdateRegistration \/ RpcDeleteRegistration

Spec == Init /\ [][Next]_vars

(* the server after CreateTrainee for a@x.com and b@x.com and a           *)
(* CreateSession for each, all within the first hour                      *)
SeededTrainee(id, email) ==
    [id |-> id, name |-> "A", email |-> email, password |-> "pw", timezone |-> "UTC",
     createdAt |-> Date(0), updatedAt |-> Date(0)]

InitSeeded ==
    /\ prisma = [trainee |-> <<SeededTrainee(1, "a@x.com"), SeededTrainee(2, "b@x.com")>>,
                 workout |-> <<>>, routine |-> <<>>, registration |-> <<>>, ids |-> 2]
    /\ revokedTokens = {}
    /\ now = 0
    /\ issued = {jwtSign([traineeId |-> 1, email |-> "a@x.com"], 0),
                 jwtSign([traineeId |-> 2, email |-> "b@x.com"], 0)}
    /\ call = NoCall
    /\ resp = NoResp
    /\ workload \in {"trainee", "workout", "routine", "registration"}
    /\ inflight = [s \in Slots |-> Idle]
    /\ budget = 4 + MaxSeededGrowth
    /\ written = [id \in {} |-> <<>>]
    /\ conversion = NoConversion

SpecSeeded == InitSeeded /\ [][Next]_vars

(* ------------------------ interleaved handlers ------------------------ *)
(* An async handler runs to its first await, and each awaited storage     *)
(* operation is one atomic step of the database; handlers of other calls  *)
(* run in between.  CreateTrainee, await by await.                        *)
Answer(request, response, p) ==
    /\ prisma' = p
    /\ call' = [rpc |-> "CreateTrainee", request |-> request, fault |-> NoFault]
    /\ resp' = response
    /\ UNCHANGED <<revokedTokens, now, issued, workload, budget, written, conversion>>

(* the destructuring and the required-field check, up to findUnique *)
CreateTraineeBegin ==
    /\ call = NoCall
    /\ \E slot \in Slots, request \in SignupRequests :
          /\ inflight[slot] = Idle
          /\ \A s \in Slots : s < slot => inflight[s] # Idle
          /\ IF request.name = "" \/ request.email = "" \/ request.password = ""
             THEN /\ Answer(request,
                            Callback(Err(INVALID_ARGUMENT,
                                         "Name, email, and password are required")),
                            prisma)
                  /\ UNCHANGED inflight
             ELSE /\ inflight' = [inflight EXCEPT
                                     ![slot] = [at |-> "findUnique", request |-> request]]
                  /\ UNCHANGED <<prisma, revokedTokens, now, issued, call, resp, workload,
                                 budget, written, conversion>>

(* await prisma.trainee.findUnique({ where: { email } }) and the branch on it *)
CreateTraineeFindUnique ==
    /\ call = NoCall
    /\ \E slot \in Slots :
          /\ inflight[slot].at = "findUnique"
          /\ IF traineeByEmail(inflight[slot].request.email) # Null
             THEN /\ Answer(inflight[slot].request,
                            Callback(Err(ALREADY_EXISTS, "Email is already in use")),
                            prisma)
                  /\ inflight' = [inflight EXCEPT ![slot] = Idle]
             ELSE /\ inflight' = [inflight EXCEPT ![slot].at = "create"]
                  /\ UNCHANGED <<prisma, revokedTokens, now, issued, call, resp, workload,
                                 budget, written, conversion>>

(* await prisma.trainee.create({ data, select }) and the callback, or the catch *)
CreateTraineeCreate ==
    /\ call = NoCall
    /\ \E slot \in Slots :
          /\ inflight[slot].at = "create"
          /\ LET request == inflight[slot].request
                 created == traineeCreate([name |-> request.name, email |-> request.email,
                                           password |-> request.password,
                                           timezone |-> request.timezone])
             IN  IF ~created.ok
                 THEN Answer(request, Callback(InternalError), prisma)
                 ELSE /\ Growth(created.prisma, issued, now) <= budget
                      /\ Answer(request,
                                [code |-> OK,
                                 body |-> [trainee |-> formatTrainee(
                                              Select(created.row, PublicTrainee))]],
                                created.prisma)
          /\ inflight' = [inflight EXCEPT ![slot] = Idle]

InitConc == Init /\ workload = "trainee"

NextConc ==
    \/ CreateTraineeBegin \/ CreateTraineeFindUnique \/ CreateTraineeCreate
    \/ RpcCreateSession \/ RpcUpdateTrainee
    \/ Deliver

SpecConc == InitConc /\ [][NextConc]_vars

(* ----------------------- handlers await by await ---------------------- *)
(* CreateSession, CheckSession, DeleteSession, UpdateTraineeRoutine and   *)
(* DeleteTraineeRoutine on MaxInFlight connections.  A handler runs from  *)
(* the arrival of its call to its first await in one step (DeleteSession  *)
(* has no await and runs whole); each awaited storage operation completes *)
(* in a step of its own, with a result or with an error, and the handler  *)
(* runs on to its next await or to its callback.  A run records the       *)
(* storage operations it issued, the callbacks it made, whether it wrote, *)
(* and whether its token was revoked when the call arrived.               *)
NoRun ==
    [at |-> "idle", rpc |-> "none", request |-> [token |-> NoToken], resp |-> NoResp,
     ops |-> <<>>, answers |-> 0, wrote |-> FALSE, revokedBefore |-> FALSE]

Arrived(rpc, request) ==
    [NoRun EXCEPT !.rpc = rpc, !.request = request,
                  !.revokedBefore = request.token \in revokedTokens]

(* callback(error) or callback(null, response) *)
Respond(run, response) ==
    [run EXCEPT !.at = "answered", !.resp = response, !.answers = @ + 1]

CreateSessionBegin ==
    \E slot \in DOMAIN inflight, request \in LoginRequests :
        LET run == [NoRun EXCEPT !.rpc = "CreateSession", !.request = request]
        IN  /\ inflight[slot] = NoRun
            /\ inflight' = [inflight EXCEPT ![slot] =
                              IF request.email = "" \/ request.password = ""
                              THEN Respond(run, Callback(Err(INVALID_ARGUMENT,
                                                  "Email and password are required")))
                              ELSE [run EXCEPT !.at = "findUnique"]]
            /\ UNCHANGED <<prisma, revokedTokens, now, issued, call, resp, workload,
                           budget, written, conversion>>

CreateSessionFindUnique ==
    \E slot \in DOMAIN inflight, fault \in Faults(1) :
        LET run == [inflight[slot] EXCEPT !.ops = Append(@, "findUnique")]
            trainee == traineeByEmail(run.request.email)
            refused == trainee = Null \/ trainee.password # run.request.password
            token == jwtSign([traineeId |-> trainee.id, email |-> trainee.email], now)
        IN  /\ inflight[slot].rpc = "CreateSession" /\ inflight[slot].at = "findUnique"
            /\ inflight' = [inflight EXCEPT ![slot] =
                              IF FaultAt(fault, 1) THEN Respond(run, Callback(InternalError))
                              ELSE IF refused
                              THEN Respond(run, Callback(Err(UNAUTHENTICATED,
                                                             "Invalid credentials")))
                              ELSE Respond(run, [code |-> OK,
                                                 body |-> [token |-> token,
                                                           trainee |-> formatTrainee(trainee)]])]
            /\ issued' = IF FaultAt(fault, 1) \/ refused THEN issued ELSE issued \cup {token}
            /\ UNCHANGED <<prisma, revokedTokens, now, call, resp, workload, budget,
                           written, conversion>>

CheckSessionBegin ==
    \E slot \in DOMAIN inflight, token \in issued \cup {NoToken} :
        LET run == Arrived("CheckSession", [token |-> token])
            auth == authenticateToken(token)
        IN  /\ inflight[slot] = NoRun
            /\ inflight' = [inflight EXCEPT ![slot] =
                              IF ~auth.ok THEN Respond(run, Callback(auth.error))
                              ELSE [run EXCEPT !.at = "findUnique"]]
            /\ UNCHANGED <<prisma, revokedTokens, now, issued, call, resp, workload,
                           budget, written, conversion>>

CheckSessionFindUnique ==
    \E slot \in DOMAIN inflight, fault \in Faults(1) :
        LET run == [inflight[slot] EXCEPT !.ops = Append(@, "findUnique")]
            trainee == traineeById(run.request.token.traineeId)
        IN  /\ inflight[slot].rpc = "CheckSession" /\ inflight[slot].at = "findUnique"
            /\ inflight' = [inflight EXCEPT ![slot] =
                              IF FaultAt(fault, 1)
                              THEN Respond(run, Callback(PrismaError(fault)))
                              ELSE IF trainee = Null
                              THEN Respond(run, Callback(Err(NOT_FOUND, "Trainee not found")))
                              ELSE Respond(run, [code |-> OK,
                                                 body |-> [authenticated |-> TRUE,
                                                           trainee |-> formatTrainee(trainee)]])]
            /\ UNCHANGED <<prisma, revokedTokens, now, issued, call, resp, workload,
                           budget, written, conversion>>

DeleteSessionRun ==
    \E slot \in DOMAIN inflight, token \in issued \cup {NoToken} :
        LET run == Arrived("DeleteSession", [token |-> token])
            out == DeleteSession(run.request, NoFault)
        IN  /\ inflight[slot] = NoRun
            /\ revokedTokens' = out.revokedTokens
            /\ inflight' = [inflight EXCEPT ![slot] =
                              Respond([run EXCEPT !.wrote = out.revokedTokens # revokedTokens],
                                      out.resp)]
            /\ UNCHANGED <<prisma, now, issued, call, resp, workload, budget, written,
                           conversion>>

UpdateTraineeRoutineBegin ==
    \E slot \in DOMAIN inflight, token \in issued \cup {NoToken}, availability \in {<<>>, <<Slot2>>} :
        LET run == Arrived("UpdateTraineeRoutine",
                           [token |-> token, trainee_id |-> 1, availability |-> availability])
            auth == authenticateToken(token)
        IN  /\ inflight[slot] = NoRun
            /\ inflight' = [inflight EXCEPT ![slot] =
                              IF ~auth.ok THEN Respond(run, Callback(InternalError))
                              ELSE IF Len(availability) = 0
                              THEN Respond(run, Callback(Err(INVALID_ARGUMENT,
                                                             "availability is required")))
                              ELSE [run EXCEPT !.at = "updateMany"]]
            /\ UNCHANGED <<prisma, revokedTokens, now, issued, call, resp, workload,
                           budget, written, conversion>>

UpdateTraineeRoutineUpdateMany ==
    \E slot \in DOMAIN inflight, fault \in Faults(1) :
        LET run == [inflight[slot] EXCEPT !.ops = Append(@, "updateMany")]
            updatedRoutine == routineUpdateMany(run.request.trainee_id,
                [availability |-> JSONstringify(run.request.availability)])
        IN  /\ inflight[slot].rpc = "UpdateTraineeRoutine" /\ inflight[slot].at = "updateMany"
            /\ IF FaultAt(fault, 1)
               THEN /\ inflight' = [inflight EXCEPT ![slot] =
                                      Respond(run, Callback(InternalError))]
                    /\ UNCHANGED <<prisma, written>>
               ELSE /\ prisma' = updatedRoutine.prisma
                    /\ written' = Written("UpdateTraineeRoutine", run.request,
                                          [prisma |-> updatedRoutine.prisma,
                                           resp |-> [code |-> OK]])
                    /\ inflight' = [inflight EXCEPT ![slot] =
                          IF updatedRoutine.count = 0
                          THEN Respond(run, Callback(Err(NOT_FOUND, "Routine not found")))
                          ELSE [run EXCEPT !.at = "findFirst", !.wrote = TRUE]]
            /\ UNCHANGED <<revokedTokens, now, issued, call, resp, workload, budget,
                           conversion>>

(* variant: a failed re-read is issued again *)
UpdateTraineeRoutineFindFirstRetrying ==
    \E slot \in DOMAIN inflight, fault \in Faults(1) :
        LET run == [inflight[slot] EXCEPT !.ops = Append(@, "findFirst")]
            routine == routineFindFirst(run.request.trainee_id)
        IN  /\ inflight[slot].rpc = "UpdateTraineeRoutine" /\ inflight[slot].at = "findFirst"
            /\ inflight' = [inflight EXCEPT ![slot] =
                              IF FaultAt(fault, 1) /\ Len(run.ops) < 3 THEN run
                              ELSE IF FaultAt(fault, 1) \/ routine = Null
                              THEN Respond(run, Callback(InternalError))
                              ELSE Respond(run, [code |-> OK,
                                                 body |-> [routine |-> formatRoutine(
                                                              IncludeTrainee(routine))]])]
            /\ UNCHANGED <<prisma, revokedTokens, now, issued, call, resp, workload,
                           budget, written, conversion>>

(* formatRoutine(null) throws, and the catch clause answers *)
UpdateTraineeRoutineFindFirst ==
    \E slot \in DOMAIN inflight, fault \in Faults(1) :
        LET run == [inflight[slot] EXCEPT !.ops = Append(@, "findFirst")]
            routine == routineFindFirst(run.request.trainee_id)
        IN  /\ inflight[slot].rpc = "UpdateTraineeRoutine" /\ inflight[slot].at = "findFirst"
            /\ inflight' = [inflight EXCEPT ![slot] =
                              IF FaultAt(fault, 1) \/ routine = Null
                              THEN Respond(run, Callback(InternalError))
                              ELSE Respond(run, [code |-> OK,
                                                 body |-> [routine |-> formatRoutine(
                                                              IncludeTrainee(routine))]])]
            /\ UNCHANGED <<prisma, revokedTokens, now, issued, call, resp, workload,
                           budget, written, conversion>>

DeleteTraineeRoutineBegin ==
    \E slot \in DOMAIN inflight, token \in issued \cup {NoToken} :
        LET run == Arrived("DeleteTraineeRoutine", [token |-> token, trainee_id |-> 1])
            auth == authenticateToken(token)
        IN  /\ inflight[slot] = NoRun
            /\ inflight' = [inflight EXCEPT ![slot] =
                              IF ~auth.ok
                              THEN Respond(run, Callback(CodedOrInternal(auth.error)))
                              ELSE [run EXCEPT !.at = "deleteMany"]]
            /\ UNCHANGED <<prisma, revokedTokens, now, issued, call, resp, workload,
                           budget, written, conversion>>

DeleteTraineeRoutineDeleteMany ==
    \E slot \in DOMAIN inflight, fault \in Faults(1) :
        LET run == [inflight[slot] EXCEPT !.ops = Append(@, "deleteMany")]
            deletedRoutine == routineDeleteMany(run.request.trainee_id)
        IN  /\ inflight[slot].rpc = "DeleteTraineeRoutine" /\ inflight[slot].at = "deleteMany"
            /\ IF FaultAt(fault, 1)
               THEN /\ inflight' = [inflight EXCEPT ![slot] =
                          Respond(run, Callback(CodedOrInternal(PrismaError(fault))))]
                    /\ UNCHANGED <<prisma, written>>
               ELSE /\ prisma' = deletedRoutine.prisma
                    /\ written' = [id \in {deletedRoutine.prisma.routine[i].id :
                                             i \in 1..Len(deletedRoutine.prisma.routine)} |->
                                     written[id]]
                    /\ inflight' = [inflight EXCEPT ![slot] =
                          IF deletedRoutine.count = 0
                          THEN Respond(run, Callback(Err(NOT_FOUND, "Routine not found")))
                          ELSE Respond([run EXCEPT !.wrote = TRUE],
                                       [code |-> OK, body |-> [success |-> TRUE]])]
            /\ UNCHANGED <<revokedTokens, now, issued, call, resp, workload, budget,
                           conversion>>

(* the client has its response; the connection takes the next call *)
Collect ==
    \E slot \in DOMAIN inflight :
        /\ inflight[slot].at = "answered"
        /\ inflight' = [inflight EXCEPT ![slot] = NoRun]
        /\ UNCHANGED <<prisma, revokedTokens, now, issued, call, resp, workload, budget,
                       written, conversion>>

(* trainee 1 is logged in and has a routine *)
InitAsync ==
    /\ prisma = [trainee |-> <<SeededTrainee(1, "a@x.com")>>, workout |-> <<>>,
                 routine |-> <<[id |-> 2, userId |-> 1,
                                availability |-> JSONstringify(<<Slot1>>),
                                createdAt |-> Date(0), updatedAt |-> Date(0)]>>,
                 registration |-> <<>>, ids |-> 2]
    /\ revokedTokens = {}
    /\ now = 0
    /\ issued = {jwtSign([traineeId |-> 1, email |-> "a@x.com"], 0)}
    /\ call = NoCall
    /\ resp = NoResp
    /\ workload = "async"
    /\ inflight = [s \in Slots |-> NoRun]
    /\ budget = 0
    /\ written = [id \in {2} |-> <<Slot1>>]
    /\ conversion = NoConversion

NextAsync ==
    \/ CreateSessionBegin \/ CreateSessionFindUnique
    \/ CheckSessionBegin \/ CheckSessionFindUnique
    \/ DeleteSessionRun
    \/ UpdateTraineeRoutineBegin \/ UpdateTraineeRoutineUpdateMany
    \/ UpdateTraineeRoutineFindFirst
    \/ DeleteTraineeRoutineBegin \/ DeleteTraineeRoutineDeleteMany
    \/ Collect

SpecAsync == InitAsync /\ [][NextAsync]_vars

(* One connection more or less makes no difference to a single call: the  *)
(* fair server starts as InitAsync does, with MaxFairInFlight             *)
(* connections.  Every awaited storage operation of every connection      *)
(* completes, and its handler runs on.                                    *)
InitAsyncFair ==
    /\ prisma = [trainee |-> <<SeededTrainee(1, "a@x.com")>>, workout |-> <<>>,
                 routine |-> <<[id |-> 2, userId |-> 1,
                                availability |-> JSONstringify(<<Slot1>>),
                                createdAt |-> Date(0), updatedAt |-> Date(0)]>>,
                 registration |-> <<>>, ids |-> 2]
    /\ revokedTokens = {}
    /\ now = 0
    /\ issued = {jwtSign([traineeId |-> 1, email |-> "a@x.com"], 0)}
    /\ call = NoCall
    /\ resp = NoResp
    /\ workload = "async"
    /\ inflight = [s \in 1..MaxFairInFlight |-> NoRun]
    /\ budget = 0
    /\ written = [id \in {2} |-> <<Slot1>>]
    /\ conversion = NoConversion

SpecAsyncFair ==
    /\ InitAsyncFair
    /\ [][NextAsync]_vars
    /\ \A slot \in 1..MaxFairInFlight :
          WF_vars(/\ \/ CreateSessionFindUnique \/ CheckSessionFindUnique
                     \/ UpdateTraineeRoutineUpdateMany \/ UpdateTraineeRoutineFindFirst
                     \/ DeleteTraineeRoutineDeleteMany
                  /\ inflight'[slot] # inflight[slot])

(* --------------------------- a filled table --------------------------- *)
(* ListTrainees over a table of 1..MaxListed trainees; the first of them  *)
(* is logged in.                                                          *)
InitListing ==
    /\ \E n \in 1..MaxListed :
          prisma = [trainee |-> [i \in 1..n |-> SeededTrainee(i, "t" \o ToString(i) \o "@x.com")],
                    workout |-> <<>>, routine |-> <<>>, registration |-> <<>>, ids |-> n]
    /\ revokedTokens = {}
    /\ now = 0
    /\ issued = {jwtSign([traineeId |-> 1, email |-> "t1@x.com"], 0)}
    /\ call = NoCall
    /\ resp = NoResp
    /\ workload = "listing"
    /\ inflight = [s \in Slots |-> Idle]
    /\ budget = MaxListed + 1
    /\ written = [id \in {} |-> <<>>]
    /\ conversion = NoConversion

NextListing == RpcListTrainees \/ Deliver

SpecListing == InitListing /\ [][NextListing]_vars

(* ------------------------- the timestamp mapper ----------------------- *)
(* A date goes out through convertTimestamp and comes back through        *)
(* convertFromTimestamp, for every epoch millisecond within MaxMs of 1970. *)
MaxMs == 2500

Marshal ==
    /\ conversion.at = "date"
    /\ conversion' = [conversion EXCEPT !.at = "timestamp",
                                        !.timestamp = convertTimestamp(conversion.date)]
    /\ UNCHANGED <<prisma, revokedTokens, now, issued, call, resp, workload, inflight,
                   budget, written>>

Unmarshal ==
    /\ conversion.at = "timestamp"
    /\ conversion' = [conversion EXCEPT !.at = "back",
                                        !.back = convertFromTimestamp(conversion.timestamp)]
    /\ UNCHANGED <<prisma, revokedTokens, now, issued, call, resp, workload, inflight,
                   budget, written>>

InitTimestamp ==
    /\ prisma = [trainee |-> <<>>, workout |-> <<>>, routine |-> <<>>,
                 registration |-> <<>>, ids |-> 0]
    /\ revokedTokens = {}
    /\ now = 0
    /\ issued = {}
    /\ call = NoCall
    /\ resp = NoResp
    /\ workload = "none"
    /\ inflight = [s \in Slots |-> Idle]
    /\ budget = 0
    /\ written = [id \in {} |-> <<>>]
    /\ conversion \in {[NoConversion EXCEPT !.at = "date", !.date = Date(t)] :
                          t \in (0 - MaxMs)..MaxMs}

NextTimestamp == Marshal \/ Unmarshal

SpecTimestamp == InitTimestamp /\ [][NextTimestamp]_vars

(* ======================== properties of the server ==================== *)
TokenRpcs ==
    {"DeleteSession", "CheckSession",
     "ListTrainees", "GetTrainee", "UpdateTrainee", "DeleteTrainee",
     "ListWorkouts", "CreateWorkout", "GetWorkout", "UpdateWorkout", "DeleteWorkout",
     "ListRoutines", "CreateRoutine", "GetTraineeRoutine", "UpdateTraineeRoutine",
     "DeleteTraineeRoutine",
     "ListRegistrations", "CreateRegistration", "GetRegistration",
     "UpdateRegistration", "DeleteRegistration"}

StatusCodes == {UNAUTHENTICATED, INVALID_ARGUMENT, ALREADY_EXISTS, NOT_FOUND, INTERNAL}

Responded == call # NoCall

(* a token that was issued, is in its validity window and was not logged out *)
Expired(token) == token.kind = "jwt" /\ now >= token.exp
Acceptable(token) == token \in issued /\ token \notin revokedTokens /\ ~Expired(token)
(* missing, malformed, wrongly signed or expired *)
Unacceptable(token) == token \in BadTokens \/ (token \in issued /\ Expired(token))

(* C1: once DeleteSession(t) has succeeded (t is in the revocation set),   *)
(* every token-taking RPC that presents t is answered UNAUTHENTICATED.     *)
C1_RevokedIsUnauthenticated ==
    [][(call' # NoCall /\ call'.rpc \in TokenRpcs
        /\ call'.request.token \in revokedTokens)
       => resp'.code = UNAUTHENTICATED]_vars

(* C2: a token-taking RPC called with a missing, malformed, wrongly signed *)
(* or expired token is answered UNAUTHENTICATED and changes neither the    *)
(* storage nor the revocation set.                                         *)
C2_BadTokenIsUnauthenticated ==
    [][(call' # NoCall /\ call'.rpc \in TokenRpcs /\ Unacceptable(call'.request.token))
       => (resp'.code = UNAUTHENTICATED
           /\ prisma' = prisma /\ revokedTokens' = revokedTokens)]_vars

StoredTrainees == {prisma.trainee[i] : i \in 1..Len(prisma.trainee)}

SameProfile(profile, trainee) ==
    /\ profile.id = trainee.id /\ profile.name = trainee.name
    /\ profile.email = trainee.email /\ profile.timezone = trainee.timezone

(* C3: for a stored trainee, CreateSession with its email and password     *)
(* returns a token of that trainee; CheckSession with a token that is      *)
(* neither revoked nor expired and whose trainee is still stored returns   *)
(* authenticated = true with that trainee's profile; CheckSession with a   *)
(* logged-out token is answered UNAUTHENTICATED.  (Storage answers.)       *)
C3_LoginCheckLogout ==
    (Responded /\ call.fault = NoFault) =>
        /\ call.rpc = "CreateSession" =>
              \A t \in StoredTrainees :
                  (t.email = call.request.email /\ t.password = call.request.password)
                  => /\ resp.code = OK
                     /\ resp.body.token.kind = "jwt"
                     /\ resp.body.token.traineeId = t.id
                     /\ resp.body.token \in issued
        /\ (call.rpc = "CheckSession" /\ Acceptable(call.request.token)) =>
              \A t \in StoredTrainees :
                  t.id = call.request.token.traineeId
                  => /\ resp.code = OK
                     /\ resp.body.authenticated
                     /\ SameProfile(resp.body.trainee, t)
        /\ (call.rpc = "CheckSession" /\ call.request.token \in revokedTokens) =>
              resp.code = UNAUTHENTICATED

(* the logged-out token of a stored trainee is presented to CheckSession *)
C3_CheckAfterLogout ==
    /\ Responded /\ call.rpc = "CheckSession" /\ call.fault = NoFault
    /\ call.request.token \in issued \cap revokedTokens
    /\ ~Expired(call.request.token)
    /\ \E t \in StoredTrainees : t.id = call.request.token.traineeId
    /\ resp.code = UNAUTHENTICATED

(* C4: CreateTrainee with name, email and password present and an email    *)
(* that a stored trainee already has is answered ALREADY_EXISTS and leaves *)
(* every table unchanged.  (Storage answers.)                              *)
C4_DuplicateEmailRejected ==
    [][(/\ call' # NoCall /\ call'.rpc = "CreateTrainee" /\ call'.fault = NoFault
        /\ call'.request.name # "" /\ call'.request.email # ""
        /\ call'.request.password # ""
        /\ \E t \in StoredTrainees : t.email = call'.request.email)
       => (resp'.code = ALREADY_EXISTS /\ prisma' = prisma)]_vars

C4_DuplicateSignup ==
    /\ Responded /\ call.rpc = "CreateTrainee" /\ call.fault = NoFault
    /\ call.request.name # "" /\ call.request.password # ""
    /\ \E t \in StoredTrainees : t.email = call.request.email
    /\ resp.code = ALREADY_EXISTS

(* the trainee records of a response body *)
SeqRange(s) == {s[i] : i \in 1..Len(s)}
TraineesIn(body) ==
    LET own == IF "trainee" \in DOMAIN body THEN {body.trainee} ELSE {}
        listed == IF "data" \in DOMAIN body THEN SeqRange(body.data) ELSE {}
        joined == (IF "routine" \in DOMAIN body THEN {body.routine.trainee} ELSE {})
             \cup (IF "routines" \in DOMAIN body
                   THEN {r.trainee : r \in SeqRange(body.routines)} ELSE {})
             \cup (IF "registration" \in DOMAIN body
                   THEN {body.registration.trainee} ELSE {})
             \cup (IF "registrations" \in DOMAIN body
                   THEN {r.trainee : r \in SeqRange(body.registrations)} ELSE {})
    IN  (own \cup listed \cup joined) \ {Null}

(* C5: no trainee record of a success response has a password field *)
C5_NoPasswordInResponses ==
    (Responded /\ resp.code = OK) =>
        \A t \in TraineesIn(resp.body) : "password" \notin DOMAIN t

(* a login answered with the profile of a row that holds a password *)
C5_ProfileOfStoredPassword ==
    /\ Responded /\ call.rpc = "CreateSession" /\ resp.code = OK
    /\ \E t \in StoredTrainees :
          t.id = resp.body.trainee.id /\ t.password = call.request.password
    /\ TraineesIn(resp.body) # {}

(* C6: no two stored trainees have the same email, whatever CreateTrainee  *)
(* and UpdateTrainee calls ran, one after the other or interleaved at      *)
(* their awaits.                                                           *)
C6_EmailsAreUnique ==
    \A i, j \in 1..Len(prisma.trainee) :
        prisma.trainee[i].email = prisma.trainee[j].email => i = j

(* a CreateTrainee that passed its lookup lost the race for the email *)
C6_LostRaceForEmail ==
    /\ Responded /\ call.rpc = "CreateTrainee" /\ resp.code = INTERNAL
    /\ \E t \in StoredTrainees : t.email = call.request.email

(* the required-field sets of the create operations *)
MissingRequired(c) ==
    CASE c.rpc = "CreateSession" -> c.request.email = "" \/ c.request.password = ""
      [] c.rpc = "CreateTrainee" ->
            c.request.name = "" \/ c.request.email = "" \/ c.request.password = ""
      [] c.rpc = "CreateWorkout" -> c.request.name = "" \/ c.request.duration = 0
      [] c.rpc \in {"CreateRoutine", "UpdateTraineeRoutine"} ->
            c.request.availability = <<>>
      [] c.rpc = "CreateRegistration" ->
            \/ c.request.event_id = "" \/ c.request.user_id = 0
            \/ c.request.invitee_email = "" \/ c.request.start_time = Null
      [] OTHER -> FALSE

(* C7: a create request (and UpdateTraineeRoutine) that lacks a required   *)
(* field, with a valid token where one is taken, is answered               *)
(* INVALID_ARGUMENT; it writes nothing and reaches no storage operation,   *)
(* so that no storage failure could change its outcome.                    *)
C7_ValidationBeforeStorage ==
    [][(/\ call' # NoCall /\ MissingRequired(call')
        /\ call'.rpc \in TokenRpcs => Acceptable(call'.request.token))
       => (/\ resp'.code = INVALID_ARGUMENT
           /\ prisma' = prisma
           /\ \A f \in Faults(2) : ~Handle(call'.rpc, call'.request, f).hit)]_vars

C7_RegistrationWithoutStartTime ==
    /\ Responded /\ call.rpc = "CreateRegistration"
    /\ Acceptable(call.request.token)
    /\ call.request.start_time = Null /\ call.request.event_id # ""
    /\ \E t \in StoredTrainees : t.id = call.request.user_id
    /\ resp.code = INVALID_ARGUMENT

(* the request names a record, or a trainee's routine, that is not stored *)
UnknownTarget(c) ==
    CASE c.rpc \in {"GetTrainee", "UpdateTrainee", "DeleteTrainee"} ->
            \A t \in StoredTrainees : t.id # c.request.trainee_id
      [] c.rpc \in {"GetWorkout", "UpdateWorkout", "DeleteWorkout"} ->
            \A i \in 1..Len(prisma.workout) : prisma.workout[i].id # c.request.workout_id
      [] c.rpc \in {"GetRegistration", "UpdateRegistration", "DeleteRegistration"} ->
            \A i \in 1..Len(prisma.registration) :
                prisma.registration[i].id # c.request.registration_id
      [] c.rpc \in {"GetTraineeRoutine", "DeleteTraineeRoutine"} ->
            \A i \in 1..Len(prisma.routine) :
                prisma.routine[i].userId # c.request.trainee_id
      [] c.rpc = "UpdateTraineeRoutine" ->
            /\ c.request.availability # <<>>
            /\ \A i \in 1..Len(prisma.routine) :
                  prisma.routine[i].userId # c.request.trainee_id
      [] OTHER -> FALSE

(* C8: with a valid token, a Get, Update or Delete of a trainee, workout   *)
(* or registration that is not stored, or of the routine of a trainee id   *)
(* that has none, is answered NOT_FOUND and leaves every table unchanged.  *)
(* (Storage answers.)                                                      *)
C8_UnknownIdIsNotFound ==
    [][(/\ call' # NoCall /\ call'.rpc \in TokenRpcs /\ call'.fault = NoFault
        /\ Acceptable(call'.request.token)
        /\ UnknownTarget(call'))
       => (resp'.code = NOT_FOUND /\ prisma' = prisma)]_vars

C8_UpdateOfUnknownTrainee ==
    /\ Responded /\ call.rpc = "UpdateTrainee" /\ call.fault = NoFault
    /\ Acceptable(call.request.token)
    /\ call.request.email.has
    /\ StoredTrainees # {}
    /\ \A t \in StoredTrainees : t.id # call.request.trainee_id
    /\ resp.code = NOT_FOUND

(* C9: every error response carries one of the five status codes, and a    *)
(* failing storage operation is answered INTERNAL.                         *)
C9_ErrorsAreMapped ==
    Responded =>
        /\ resp.code \in StatusCodes \cup {OK}
        /\ call.fault # NoFault => resp.code = INTERNAL

(* the outcome of the served call had it presented token t instead *)
OutcomeWith(t) == Handle(call'.rpc, With(call'.request, [token |-> t]), call'.fault)

(* C10 as stated: a call of any token-taking RPC with a valid token gets   *)
(* the same response and leaves the same tables as the same call with any  *)
(* other valid token, whichever trainees the tokens were issued to.        *)
C10_AnyRpcIgnoresTokenOwner ==
    [][(call' # NoCall /\ call'.rpc \in TokenRpcs /\ Acceptable(call'.request.token))
       => \A t \in issued :
             Acceptable(t) => (OutcomeWith(t).resp = resp' /\ OutcomeWith(t).prisma = prisma')
      ]_vars

(* C10, amended: the same for every token-taking RPC other than            *)
(* CheckSession, which answers with the profile of the token's trainee.    *)
C10_EntityRpcsIgnoreTokenOwner ==
    [][(/\ call' # NoCall /\ call'.rpc \in TokenRpcs \ {"CheckSession"}
        /\ Acceptable(call'.request.token))
       => \A t \in issued :
             Acceptable(t) => (OutcomeWith(t).resp = resp' /\ OutcomeWith(t).prisma = prisma')
      ]_vars

(* a trainee's routine updated with a token of another trainee, while the  *)
(* owner holds a valid token as well                                       *)
C10_RoutineUpdatedByOther ==
    /\ Responded /\ call.rpc = "UpdateTraineeRoutine" /\ resp.code = OK
    /\ call.request.token.traineeId # call.request.trainee_id
    /\ \E t \in issued : Acceptable(t) /\ t.traineeId = call.request.trainee_id

(* C11: a token issued at hour T and not logged out is accepted by         *)
(* authenticateToken at every hour before T + 2 and rejected with          *)
(* UNAUTHENTICATED from T + 2 on; CheckSession, which hands the            *)
(* authenticator's error to the caller as it is, shows the same.           *)
C11_TwoHourValidity ==
    /\ \A t \in issued \ revokedTokens :
          IF now < t.iat + 2
          THEN authenticateToken(t).ok
          ELSE /\ ~authenticateToken(t).ok
               /\ authenticateToken(t).error.code = UNAUTHENTICATED
    /\ (/\ Responded /\ call.rpc = "CheckSession" /\ call.fault = NoFault
        /\ call.request.token \in issued \ revokedTokens)
       => (resp.code = UNAUTHENTICATED <=> now >= call.request.token.iat + 2)

(* a token presented exactly two hours after its issue, no logout so far *)
C11_RejectedAtTwoHours ==
    /\ Responded /\ call.rpc = "CheckSession" /\ call.fault = NoFault
    /\ call.request.token \in issued /\ revokedTokens = {}
    /\ now = call.request.token.iat + 2
    /\ resp.code = UNAUTHENTICATED


(* the request of an Update* call that carries no optional field *)
EmptyPatch(c) ==
    \/ c.rpc = "UpdateTrainee"
       /\ Select(c.request, DOMAIN NoPatchTrainee) = NoPatchTrainee
    \/ c.rpc = "UpdateWorkout"
       /\ Select(c.request, DOMAIN NoPatchWorkout) = NoPatchWorkout
    \/ c.rpc = "UpdateRegistration"
       /\ Select(c.request, DOMAIN NoPatchRegistration) = NoPatchRegistration

(* the table an Update* call writes and the id it names *)
TableOf(c) ==
    CASE c.rpc = "UpdateTrainee" -> "trainee"
      [] c.rpc = "UpdateWorkout" -> "workout"
      [] OTHER -> "registration"
TargetOf(c) ==
    CASE c.rpc = "UpdateTrainee" -> c.request.trainee_id
      [] c.rpc = "UpdateWorkout" -> c.request.workout_id
      [] OTHER -> c.request.registration_id

(* storage q is storage p but for the updatedAt of row id of the table *)
SameButUpdatedAt(p, q, table, id) ==
    /\ \A t \in DOMAIN p : t # table => q[t] = p[t]
    /\ Len(q[table]) = Len(p[table])
    /\ \A i \in 1..Len(p[table]) :
          IF p[table][i].id = id
          THEN \A k \in DOMAIN p[table][i] :
                  k # "updatedAt" => q[table][i][k] = p[table][i][k]
          ELSE q[table][i] = p[table][i]

(* C12: UpdateTrainee, UpdateWorkout and UpdateRegistration called with a  *)
(* valid token, an existing id and every optional field absent (and no     *)
(* storage failure) are answered OK, change no field of the target row but *)
(* updatedAt, and change no other row of any table.                        *)
C12_EmptyUpdateKeepsEntity ==
    [][(/\ call = NoCall /\ call' # NoCall
        /\ call'.rpc \in {"UpdateTrainee", "UpdateWorkout", "UpdateRegistration"}
        /\ EmptyPatch(call') /\ call'.fault = NoFault
        /\ Acceptable(call'.request.token)
        /\ FindFirst(prisma[TableOf(call')], "id", TargetOf(call')) # Null)
       => /\ resp'.code = OK
          /\ SameButUpdatedAt(prisma, prisma', TableOf(call'), TargetOf(call'))]_vars

(* an update without fields of a workout that was created an hour earlier *)
C12_EmptyUpdateOfWorkout ==
    /\ Responded /\ call.rpc = "UpdateWorkout" /\ EmptyPatch(call)
    /\ call.fault = NoFault /\ resp.code = OK
    /\ resp.body.workout.updatedAt # resp.body.workout.createdAt
    /\ workoutById(call.request.workout_id).duration # 0


(* C13: for each entity kind, a Get issued right after a successful Create *)
(* returns the entity the Create returned: GetTrainee, GetWorkout and      *)
(* GetRegistration by the created id, GetTraineeRoutine by the trainee id  *)
(* given to CreateRoutine, also when that trainee had a routine before.    *)
C13_GetAfterCreate ==
    (Responded /\ resp.code = OK /\ call.fault = NoFault) =>
        CASE call.rpc = "CreateTrainee" ->
               \A t \in issued : Acceptable(t) =>
                  GetTrainee([token |-> t, trainee_id |-> resp.body.trainee.id],
                             NoFault).resp = resp
          [] call.rpc = "CreateWorkout" ->
               GetWorkout([token |-> call.request.token,
                           workout_id |-> resp.body.workout.id], NoFault).resp = resp
          [] call.rpc = "CreateRegistration" ->
               GetRegistration([token |-> call.request.token,
                                registration_id |-> resp.body.registration.id],
                               NoFault).resp = resp
          [] call.rpc = "CreateRoutine" ->
               GetTraineeRoutine([token |-> call.request.token,
                                  trainee_id |-> call.request.user_id],
                                 NoFault).resp = resp
          [] OTHER -> TRUE


(* C14: for every epoch millisecond t of the range, zero and the negative  *)
(* values off a whole second included, convertFromTimestamp of             *)
(* convertTimestamp of t is t.                                             *)
C14_TimestampRoundTrip ==
    conversion.at = "back" => conversion.back = conversion.date


(* C15: ListTrainees with a valid token over N stored trainees, page p and *)
(* page size s (an absent or zero page taken as 1, an absent or zero page  *)
(* size as 20) is answered OK with exactly the trainees at the positions   *)
(* (p-1)*s+1 .. min(p*s, N) of the storage order, none when (p-1)*s >= N,  *)
(* and with total = N.                                                     *)
C15_PageOfTrainees ==
    (/\ Responded /\ call.rpc = "ListTrainees" /\ call.fault = NoFault
     /\ Acceptable(call.request.token))
    => LET asked == call.request.pagination
           p == IF asked = Null \/ asked.page = 0 THEN 1 ELSE asked.page
           s == IF asked = Null \/ asked.page_size = 0 THEN 20 ELSE asked.page_size
           N == Len(prisma.trainee)
           first == (p - 1) * s + 1
           last == IF p * s < N THEN p * s ELSE N
       IN  /\ resp.code = OK
           /\ resp.body.pagination.total = N
           /\ Len(resp.body.data) = (IF last >= first THEN last - first + 1 ELSE 0)
           /\ \A i \in 1..Len(resp.body.data) :
                 /\ resp.body.data[i].id = prisma.trainee[first + i - 1].id
                 /\ resp.body.data[i].email = prisma.trainee[first + i - 1].email

(* page 2 of size 5 over 12 trainees: the trainees 6 to 10, total 12 *)
C15_SecondPageOfTwelve ==
    /\ Responded /\ call.rpc = "ListTrainees" /\ resp.code = OK
    /\ call.request.pagination = [page |-> 2, page_size |-> 5]
    /\ Len(prisma.trainee) = 12
    /\ [i \in 1..Len(resp.body.data) |-> resp.body.data[i].id] = <<6, 7, 8, 9, 10>>
    /\ resp.body.pagination.total = 12


(* C16: when a trainee has several routines, a successful                  *)
(* UpdateTraineeRoutine changes the first of them and no other routine,    *)
(* and a successful DeleteTraineeRoutine removes the first of them and no  *)
(* other routine.                                                          *)
C16_FirstMatchOnly ==
    [][(/\ call = NoCall /\ call' # NoCall /\ resp'.code = OK
        /\ call'.rpc \in {"UpdateTraineeRoutine", "DeleteTraineeRoutine"})
       => LET rows == prisma.routine
              first == Min(Where(rows, "userId", call'.request.trainee_id))
          IN  IF call'.rpc = "UpdateTraineeRoutine"
              THEN /\ Len(prisma'.routine) = Len(rows)
                   /\ \A i \in 1..Len(rows) : i # first => prisma'.routine[i] = rows[i]
              ELSE prisma'.routine =
                      SubSeq(rows, 1, first - 1) \o SubSeq(rows, first + 1, Len(rows))]_vars


C18_AvailabilityAsWritten ==
    (Responded /\ resp.code = OK) =>
        CASE call.rpc \in {"CreateRoutine", "GetTraineeRoutine", "UpdateTraineeRoutine"} ->
               resp.body.routine.availability = written[resp.body.routine.id]
          [] call.rpc = "ListRoutines" ->
               \A i \in 1..Len(resp.body.routines) :
                  resp.body.routines[i].availability = written[resp.body.routines[i].id]
          [] OTHER -> TRUE

(* a routine read back whose slots were written unsorted and with a        *)
(* repeated slot                                                           *)
C18_RepeatedSlotReadBack ==
    /\ Responded /\ call.rpc = "GetTraineeRoutine" /\ resp.code = OK
    /\ resp.body.routine.availability = <<Slot2, Slot1, Slot1>>


(* the column an optional request field of an Update* call is written to *)
ColumnOf ==
    [name |-> "name", email |-> "email", password |-> "password",
     timezone |-> "timezone", duration |-> "duration", description |-> "description",
     color |-> "color", event_id |-> "eventId", user_id |-> "userId",
     invitee_email |-> "inviteeEmail", start_time |-> "startTime",
     end_time |-> "endTime", status |-> "status"]

(* a string field supplied as the empty string ('' of an id is 0) *)
SuppliedEmpty(request, f) ==
    /\ request[f].has
    /\ request[f].val = (IF f = "user_id" THEN 0 ELSE "")

(* C19: in a successful UpdateTrainee, UpdateWorkout or UpdateRegistration *)
(* a string field supplied as the empty string keeps its stored value like *)
(* an absent field, every field supplied with a non-empty value is set to  *)
(* that value, and nothing else changes apart from updated_at; a call that *)
(* supplies only empty strings is answered OK, not refused.                *)
C19_EmptyStringIsAbsent ==
    [][(/\ call = NoCall /\ call' # NoCall
        /\ call'.rpc \in {"UpdateTrainee", "UpdateWorkout", "UpdateRegistration"})
       => LET request == call'.request
              fields == (DOMAIN request) \cap (DOMAIN ColumnOf)
              strings == fields \ {"duration", "start_time", "end_time"}
              table == TableOf(call')
              old == FindFirst(prisma[table], "id", TargetOf(call'))
              new == FindFirst(prisma'[table], "id", TargetOf(call'))
          IN  /\ (/\ Acceptable(request.token) /\ call'.fault = NoFault /\ old # Null
                  /\ \A f \in fields : request[f].has => (f \in strings /\ SuppliedEmpty(request, f)))
                 => resp'.code = OK
              /\ resp'.code = OK
                 => /\ old # Null /\ new # Null
                    /\ \A f \in strings :
                          new[ColumnOf[f]] = IF request[f].has /\ ~SuppliedEmpty(request, f)
                                             THEN request[f].val ELSE old[ColumnOf[f]]
                    /\ \A f \in fields \ strings :
                          ~request[f].has => new[ColumnOf[f]] = old[ColumnOf[f]]
                    /\ "duration" \in fields /\ request.duration.has
                          => new.duration = request.duration.val
                    /\ \A k \in (DOMAIN old) \ {ColumnOf[f] : f \in fields} :
                          k # "updatedAt" => new[k] = old[k]
                    /\ \A t \in DOMAIN prisma : t # table => prisma'[t] = prisma[t]
                    /\ Len(prisma'[table]) = Len(prisma[table])
                    /\ \A i \in 1..Len(prisma[table]) :
                          prisma[table][i].id # TargetOf(call')
                             => prisma'[table][i] = prisma[table][i]]_vars

(* a trainee updated with the name supplied as '': the stored name stays *)
C19_EmptyNameKept ==
    /\ Responded /\ call.rpc = "UpdateTrainee" /\ resp.code = OK
    /\ call.request.name = Some("")
    /\ resp.body.trainee.name = "A"


(* C20: every token-taking RPC authenticates the token before it validates *)
(* the request and before it touches the storage: a request with a token   *)
(* that is not accepted and with required fields missing is answered       *)
(* UNAUTHENTICATED, and a call whose token is not accepted reaches no       *)
(* storage operation and leaves the storage as it was.                     *)
C20_AuthenticatedFirst ==
    [][(/\ call = NoCall /\ call' # NoCall /\ call'.rpc \in TokenRpcs
        /\ \/ Unacceptable(call'.request.token)
           \/ call'.request.token \in revokedTokens)
       => /\ MissingRequired(call') => resp'.code = UNAUTHENTICATED
          /\ call'.fault = NoFault
          /\ prisma' = prisma]_vars


(* C21: the revocation set only grows. A successful DeleteSession(t) adds  *)
(* exactly t, which was not in the set and passes the signature and expiry *)
(* verification in the state it is added in; every other RPC and every     *)
(* failed DeleteSession leaves the set as it is.                           *)
C21_RevocationSetOnlyGrows ==
    [][/\ revokedTokens \subseteq revokedTokens'
       /\ IF call = NoCall /\ call' # NoCall
             /\ call'.rpc = "DeleteSession" /\ resp'.code = OK
          THEN /\ revokedTokens' = revokedTokens \cup {call'.request.token}
               /\ call'.request.token \notin revokedTokens
               /\ jwtVerifyOk(call'.request.token)
          ELSE revokedTokens' = revokedTokens]_vars

(* a second logout with a token that is in the set already: refused *)
C21_SecondLogoutRefused ==
    /\ Responded /\ call.rpc = "DeleteSession" /\ resp.code = UNAUTHENTICATED
    /\ call.request.token \in revokedTokens
    /\ revokedTokens \subseteq issued


(* C23: when CreateTrainee calls with the same, so far unused email run    *)
(* interleaved at their awaits, one is answered OK and every other one     *)
(* ALREADY_EXISTS, and one trainee with that email is stored.              *)
C23_OneSignupWinsOthersExist ==
    (/\ Responded /\ call.rpc = "CreateTrainee" /\ ~MissingRequired(call))
    => /\ resp.code \in {OK, ALREADY_EXISTS}
       /\ Count(prisma.trainee, "email", call.request.email) = 1


(* the runs of the connections *)
Runs == {inflight[slot] : slot \in DOMAIN inflight}

(* C22: a call whose storage operations complete delivers exactly one     *)
(* response: a run that has not answered has made no callback, a run that *)
(* has answered has made one, with one response, and once its awaited     *)
(* operations complete every run answers.  No storage operation is issued *)
(* twice by one run.                                                      *)
C22_OneResponseNoRetry ==
    /\ [](\A run \in Runs :
            /\ run.at = "answered" <=> run.answers = 1
            /\ run.at = "answered" <=> run.resp # NoResp
            /\ run.answers \in {0, 1}
            /\ \A i, j \in 1..Len(run.ops) : run.ops[i] = run.ops[j] => i = j)
    /\ \A slot \in 1..MaxFairInFlight :
          (inflight[slot].at \notin {"idle", "answered"}) ~> (inflight[slot].at = "answered")

(* an UpdateTraineeRoutine whose re-read failed: two operations, one error *)
C22_FailedRereadAnswered ==
    \E run \in Runs :
        /\ run.rpc = "UpdateTraineeRoutine" /\ run.at = "answered"
        /\ run.ops = <<"updateMany", "findFirst">>
        /\ run.resp.code = INTERNAL /\ run.answers = 1


(* C24: the step in which CheckSession, UpdateTraineeRoutine or           *)
(* DeleteTraineeRoutine answers with a success is never taken while the   *)
(* token of the call is in the revocation set.                            *)
C24_NoSuccessWhileRevoked ==
    [][\A slot \in DOMAIN inflight :
          (/\ inflight[slot].at # "answered" /\ inflight'[slot].at = "answered"
           /\ inflight'[slot].rpc \in {"CheckSession", "UpdateTraineeRoutine",
                                       "DeleteTraineeRoutine"}
           /\ inflight'[slot].resp.code = OK)
          => inflight'[slot].request.token \notin revokedTokens]_vars


(* C25: a call that is answered with an error has changed nothing: none   *)
(* of the storage operations it issued wrote, whatever the other          *)
(* connections did in between.  In particular the re-read of an           *)
(* UpdateTraineeRoutine that finds its routine deleted does not answer    *)
(* with an error.                                                         *)
C25_ErrorLeavesNoTrace ==
    /\ [](\A run \in Runs : (run.at = "answered" /\ run.resp.code # OK) => ~run.wrote)
    /\ [][\A slot \in DOMAIN inflight :
            (/\ inflight[slot].at = "findFirst" /\ inflight'[slot].at = "answered"
             /\ routineFindFirst(inflight[slot].request.trainee_id) = Null)
            => inflight'[slot].resp.code = OK]_vars


(* C26: DeleteSession is never found between its check and its insert,   *)
(* and of two DeleteSession calls on two connections with the same token, *)
(* valid when the first of them arrived, one is answered with success and *)
(* the other with UNAUTHENTICATED.                                        *)
C26_OneLogoutWins ==
    /\ \A run \in Runs : run.rpc = "DeleteSession" => run.at = "answered"
    /\ \A s1, s2 \in DOMAIN inflight :
          (/\ s1 # s2
           /\ inflight[s1].rpc = "DeleteSession" /\ inflight[s2].rpc = "DeleteSession"
           /\ inflight[s1].request.token = inflight[s2].request.token
           /\ inflight[s1].request.token \in issued
           /\ ~inflight[s1].revokedBefore)
          => /\ inflight[s1].resp.code = OK
             /\ inflight[s2].resp.code = UNAUTHENTICATED
             /\ inflight[s2].revokedBefore
             /\ inflight[s1].request.token \in revokedTokens

(* both connections hold an answered logout of the one token *)
C26_TwoLogoutsAnswered ==
    \E s1, s2 \in DOMAIN inflight :
        /\ s1 # s2
        /\ inflight[s1].rpc = "DeleteSession" /\ inflight[s2].rpc = "DeleteSession"
        /\ inflight[s1].request.token \in issued
        /\ inflight[s1].request.token = inflight[s2].request.token
        /\ inflight[s1].resp.code = OK /\ inflight[s2].resp.code = UNAUTHENTICATED


(* C27: every successful CreateSession returns a token no earlier login   *)
(* returned, and a successful DeleteSession changes the standing of no    *)
(* issued token but its own: the token of a different login, of the same  *)
(* trainee at the same clock value too, is accepted after it as before.   *)
C27_LogoutOnlyItsOwnSession ==
    [][/\ (/\ call = NoCall /\ call' # NoCall
           /\ call'.rpc = "CreateSession" /\ resp'.code = OK)
          => resp'.body.token \notin issued
       /\ (/\ call = NoCall /\ call' # NoCall
           /\ call'.rpc = "DeleteSession" /\ resp'.code = OK)
          => \A token \in issued \ {call'.request.token} :
                (token \in revokedTokens') <=> (token \in revokedTokens)]_vars


(* C28: DeleteTrainee puts nothing into the revocation set, and a token   *)
(* that was issued to a trainee, is unexpired and not in the set is       *)
(* accepted after the trainee was deleted: authenticateToken passes it,   *)
(* no token-taking RPC answers it with UNAUTHENTICATED, DeleteSession     *)
(* logs it out, and CheckSession, when its storage operation succeeds,    *)
(* answers NOT_FOUND.                                                     *)
C28_TokenOutlivesTrainee ==
    [][/\ (call = NoCall /\ call' # NoCall /\ call'.rpc = "DeleteTrainee")
          => revokedTokens' = revokedTokens
       /\ (/\ call = NoCall /\ call' # NoCall /\ call'.rpc \in TokenRpcs
           /\ Acceptable(call'.request.token)
           /\ traineeById(call'.request.token.traineeId) = Null)
          => /\ authenticateToken(call'.request.token).ok
             /\ resp'.code # UNAUTHENTICATED
             /\ (call'.rpc = "CheckSession" /\ call'.fault = NoFault)
                   => resp'.code = NOT_FOUND
             /\ (call'.rpc = "DeleteSession") => resp'.code = OK]_vars

(* CheckSession with the token of a deleted trainee: NOT_FOUND *)
C28_SessionOfDeletedTrainee ==
    /\ Responded /\ call.rpc = "CheckSession" /\ resp.code = NOT_FOUND
    /\ Acceptable(call.request.token)
    /\ traineeById(call.request.token.traineeId) = Null


(* C29: every stored workout has a non-empty name and a non-zero duration *)
C29_WorkoutsKeepNameAndDuration ==
    \A i \in 1..Len(prisma.workout) :
        prisma.workout[i].name # "" /\ prisma.workout[i].duration # 0


(* C30: for a non-empty email and password, a CreateSession whose storage *)
(* operation succeeds and whose email is unknown, or whose password is    *)
(* not the stored one, is answered with the one response UNAUTHENTICATED  *)
(* "Invalid credentials", and changes neither storage nor the revocation  *)
(* set nor the issued tokens.                                             *)
C30_LoginDoesNotRevealEmail ==
    [][(/\ call = NoCall /\ call' # NoCall /\ call'.rpc = "CreateSession"
        /\ call'.fault = NoFault
        /\ call'.request.email # "" /\ call'.request.password # ""
        /\ \/ traineeByEmail(call'.request.email) = Null
           \/ traineeByEmail(call'.request.email).password # call'.request.password)
       => /\ resp' = Callback(Err(UNAUTHENTICATED, "Invalid credentials"))
          /\ UNCHANGED <<prisma, revokedTokens, issued>>]_vars

(* both refusals have been seen: here the one for an unknown email, on a  *)
(* server that knows another email                                        *)
C30_UnknownEmailRefused ==
    /\ Responded /\ call.rpc = "CreateSession" /\ call.fault = NoFault
    /\ call.request.email # "" /\ call.request.password # ""
    /\ traineeByEmail(call.request.email) = Null
    /\ Len(prisma.trainee) > 0
    /\ resp = Callback(Err(UNAUTHENTICATED, "Invalid credentials"))

====
